---- MODULE Spec2Model ----
(***************************************************************************)
(* Model of the news scoring run (scripts/news/score.ts) and of the        *)
(* acceptance check that reads its output.                                 *)
(*                                                                         *)
(* Numbers.  Every real number of the program that lies on the 0..1 scale  *)
(* (trust weights, breakdown axes, total_score) is represented by the      *)
(* integer  value * Unit.  Unit is chosen so that every product and        *)
(* quotient the program forms on the modelled inputs is an integer, which  *)
(* makes the arithmetic exact (the program's floating point rounding       *)
(* error is not modelled).  Trust weights are given in hundredths.         *)
(*                                                                         *)
(* Text.  A title is one phrase and a summary is a sequence of phrases.    *)
(* The program only asks whether fixed patterns occur in the lower-cased   *)
(* text; Lower and Substrings tabulate, per phrase, the lower-cased form   *)
(* and the patterns that occur in it.  Japanese patterns are written in    *)
(* romaji with the prefix "ja_" (the module text is ASCII):                *)
(*   ja_happyou 発表, ja_ririisu リリース, ja_seinou 性能,                 *)
(*   ja_daikibo 大規模, ja_oohaba 大幅, ja_daikibomoderu 大規模モデル,     *)
(*   ja_tejun 手順, ja_dounyuu 導入, ja_jissou 実装, ja_enjinia エンジニア,*)
(*   ja_kaihatsu 開発, ja_koodo コード, ja_sanpuru サンプル,               *)
(*   ja_chuutoriaru チュートリアル, ja_kosuto コスト, ja_uriage 売上,      *)
(*   ja_shuueki 収益, ja_saiyou 採用, ja_jigyou 事業, ja_shijou 市場,      *)
(*   ja_toushi 投資, ja_eikyou 影響, ja_kouritsu 効率, ja_seisansei 生産性,*)
(*   ja_seikou 成功, ja_keesusutadi ケーススタディ,                        *)
(*   ja_roodomappu ロードマップ, ja_senryaku 戦略, ja_jirei 事例,          *)
(*   ja_fureemuwaaku フレームワーク, ja_tenpureeto テンプレート.           *)
(***************************************************************************)
EXTENDS Integers, Sequences, FiniteSets, TLC

VARIABLES
    enrichedFile,   \* data/news.enriched.json: a list of items, or no file
    configFile,     \* config/source_scores.json: a trust table, or no file
    sourceScores,   \* main's sourceScores
    scored,         \* main's scored
    written,        \* docs/data/news.generated.json as written by writeOutputs
    results,        \* the acceptance check's results
    pc,             \* position in the run
    articles,           \* docs/script.js: window.articles
    currentPersona,     \* docs/script.js: currentPersona
    filteredArticles,   \* docs/script.js: filteredArticles
    tierFilter,         \* value of the #source-tier-filter select
    minScoreFilter,     \* value of the #min-score-filter slider
    searchInput,        \* value of the #search-input box
    container,          \* the sections of #articles-container
    navCounts,          \* the numbers of the #nav-count-* elements
    stats,              \* the texts of #stat-total, #stat-avg-score, #stat-tier1
    kpText,             \* deriveLabeledKeyPoints: the sentences of its text
    kpCount,            \* deriveLabeledKeyPoints: count
    kpResults,          \* deriveLabeledKeyPoints: the returned entries
    rawItem,            \* enrich.ts: the raw item being enriched
    sourceDomain,       \* enrich.ts: the sourceDomain computed for it
    controller,         \* the DashboardController object: currentPersona, articles,
                        \* filteredArticles
    controls,           \* the values of the dashboard's filter selects, slider and
                        \* search box
    dashStats           \* the dashboard's #stat-total, #stat-avg-score, #stat-tier1

\* the state of the page of docs/script.js
pageVars == <<articles, currentPersona, filteredArticles, tierFilter,
              minScoreFilter, searchInput, container, navCounts, stats>>

\* the state of one key-point extraction
kpVars == <<kpText, kpCount, kpResults>>

enrichVars == <<rawItem, sourceDomain>>

dashVars == <<controller, controls, dashStats>>

vars == <<enrichedFile, configFile, sourceScores, scored, written, results, pc,
          pageVars, kpVars, enrichVars, dashVars>>

----------------------------------------------------------------------------
(* Bounds of the model *)

\* input lists of up to MaxVaried items are enumerated item by item
MaxVaried == 3
\* longer input lists repeat a pattern of up to MaxPattern items; they have
\* MinItems-1 .. MinItems+MaxOver items
MaxPattern == 2
MaxOver == 1
\* ages (in days) over which the freshness weight is compared
MaxAge == 35

----------------------------------------------------------------------------
(* Numbers *)

Unit == 150 * 100

Hundredths(c) == c * 150

Min(a, b) == IF a < b THEN a ELSE b
Max(a, b) == IF a > b THEN a ELSE b

\* Math.round of the non-negative rational num/den: floor(num/den + 1/2)
Round(num, den) == (2 * num + den) \div (2 * den)

Undefined == "undefined"

----------------------------------------------------------------------------
(* Text *)

Lower(p) ==
    CASE p = "OpenAI releases new benchmark-topping model"
             -> "openai releases new benchmark-topping model"
      [] p = "GitHub sample code tutorial" -> "github sample code tutorial"
      [] p = "quarterly ROI report" -> "quarterly roi report"
      [] p = "SOTA inference security evaluation tooling"
             -> "sota inference security evaluation tooling"
      [] OTHER -> p

\* the patterns (of any list or regular expression of the program) that
\* occur as a substring of the lower-cased phrase
Substrings(lp) ==
    CASE lp = "openai releases new benchmark-topping model"
             -> {"release", "benchmark", "model"}
      [] lp = "agents and rag cut latency"
             -> {"agent", "agents", "rag", "latency"}
      [] lp = "storage cost" -> {"rag", "cost"}
      [] lp = "quarterly roi report" -> {"roi"}
      [] lp = "github sample code tutorial"
             -> {"github", "sample", "code", "tutorial"}
      [] lp = "sota inference security evaluation tooling"
             -> {"sota", "inference", "security", "evaluation", "tooling"}
      [] lp = "ja_dounyuu ja_keesusutadi" -> {"ja_dounyuu", "ja_keesusutadi"}
      [] OTHER -> {}

\* the alternatives of /\b(agents?|rag|latency|cost|security)\b/ that occur
\* in the lower-cased phrase between word boundaries
WholeWords(lp) ==
    CASE lp = "agents and rag cut latency" -> {"agents", "rag", "latency"}
      [] lp = "storage cost" -> {"cost"}
      [] lp = "sota inference security evaluation tooling" -> {"security"}
      [] OTHER -> {}

\* `${it.title} ${it.summary}`.toLowerCase()
TextOf(it) == [i \in 1..(1 + Len(it.summary)) |->
                 IF i = 1 THEN Lower(it.title) ELSE Lower(it.summary[i - 1])]

\* text.includes(k)
Includes(text, k) == \E i \in 1..Len(text) : k \in Substrings(text[i])

\* regex.test(text) for a regular expression that is an alternation of literals
TestAny(text, alternatives) == \E k \in alternatives : Includes(text, k)

----------------------------------------------------------------------------
(* Publication timestamps.  publishedAt is modelled by how it parses and,   *)
(* when it parses, by the whole-day difference now - date (negative for a   *)
(* date in the future):                                                     *)
(*   datetime  a full ISO date-time                                         *)
(*   dateonly  YYYY-MM-DD                                                   *)
(*   garbage   a non-empty string that is no date, such as "NaN-NaN-NaN",   *)
(*             which collect.ts writes for an unparseable feed date         *)
(*   empty     the empty string                                             *)

(* Domains.  A string that may hold a host or a domain (url host,           *)
(* sourceDomain, source, the keys of the trust table) is modelled as the    *)
(* sequence of its dot-separated labels: "openai.com" is <<"openai","com">>,*)
(* a name without dots is a single label, and '' is <<>>.                   *)

EmptyString == <<>>
DefaultKey == <<"default">>

\* a || b on strings
OrElse(a, b) == IF a # EmptyString THEN a ELSE b

IsDate(p) == p.kind \in {"datetime", "dateonly"}

StaleDays == 999
FullDays == 30
RecencyMax == 40
CredibilityMax == 25
RelevanceCap == 20
ImpactCap == 15
MinItems == 20
PlaceholderScore == 45
TierThreshold == 80

\* score.ts daysFromNow
daysFromNow(dateStr) ==
    IF ~IsDate(dateStr) THEN StaleDays
    ELSE IF dateStr.age < 0 THEN 0 ELSE dateStr.age

\* faulty variant: the domain's own entry is ignored
credBaseOf_DefaultOnly(domain, ss) ==
    IF DefaultKey \in DOMAIN ss THEN ss[DefaultKey] ELSE 50

\* sourceScores[domain] ?? sourceScores['default'] ?? 0.5, in hundredths
\* faulty variant: a domain without an entry gets 0.5, whatever the table's default
credBaseOf_NoDefault(domain, ss) ==
    IF domain \in DOMAIN ss THEN ss[domain] ELSE 50

credBaseOf(domain, ss) ==
    IF domain \in DOMAIN ss THEN ss[domain]
    ELSE IF DefaultKey \in DOMAIN ss THEN ss[DefaultKey]
    ELSE 50

kw == {"agent", "agents", "tooling", "rag", "evaluation", "latency", "cost",
       "security", "benchmark", "release", "model", "inference"}

\* /release|laun(ch|ced)|announce|発表|リリース/i
ImpactRelease == {"release", "launch", "launced", "announce", "ja_happyou", "ja_ririisu"}
\* /benchmark|SOTA|性能|大規模|大幅|大規模モデル/i, applied to lower-cased text
ImpactBenchmark == {"benchmark", "sota", "ja_seinou", "ja_daikibo", "ja_oohaba",
                    "ja_daikibomoderu"}

\* Recency 0-40: Math.round((30 - Math.min(30, days)) * (40 / 30)), clamped
recencyOf(it) ==
    LET days == daysFromNow(it.publishedAt)
    IN  Max(0, Min(RecencyMax, Round((FullDays - Min(FullDays, days)) * RecencyMax, FullDays)))

\* Source credibility: Math.round(credBase * 25)
credibilityOf(it, ss) ==
    Round(credBaseOf(it.sourceDomain, ss) * CredibilityMax, 100)

\* faulty variant: the keyword relevance without its cap of 20
relevanceOf_Uncapped(it) ==
    LET text == TextOf(it)
        hits == Cardinality({k \in kw : Includes(text, k)})
        bonus == IF \E i \in 1..Len(text) : WholeWords(text[i]) # {} THEN 5 ELSE 0
    IN  3 * hits + bonus

\* Relevance 0-20 by keywords in title/summary
relevanceOf(it) ==
    LET text == TextOf(it)
        hits == Cardinality({k \in kw : Includes(text, k)})
        bonus == IF \E i \in 1..Len(text) : WholeWords(text[i]) # {} THEN 5 ELSE 0
    IN  Min(RelevanceCap, 3 * hits + bonus)

\* Impact 0-15 (rule-based)
impactOf(it) ==
    LET text == TextOf(it)
    IN  Min(ImpactCap, (IF TestAny(text, ImpactRelease) THEN 8 ELSE 0)
                       + (IF TestAny(text, ImpactBenchmark) THEN 7 ELSE 0))

scoreItem(it, ss) ==
    recencyOf(it) + credibilityOf(it, ss) + relevanceOf(it) + impactOf(it)

\* faulty variant: the thresholds compared with > in place of >=
labelFromScore_Strict(score) ==
    IF score > 80 THEN "must_read"
    ELSE IF score > 60 THEN "recommended"
    ELSE IF score > 40 THEN "consider"
    ELSE "skip"

labelFromScore(score) ==
    IF score >= 80 THEN "must_read"
    ELSE IF score >= 60 THEN "recommended"
    ELSE IF score >= 40 THEN "consider"
    ELSE "skip"

\* faulty variant: the tier threshold compared with > in place of >=
determineTier_Strict(domain, ss) ==
    IF credBaseOf(domain, ss) > TierThreshold THEN 1 ELSE 2

determineTier(domain, ss) ==
    IF credBaseOf(domain, ss) >= TierThreshold THEN 1 ELSE 2

clamp01(n) == Max(0, Min(Unit, n))

\* faulty variant: the linear decay without the cut at 30 days and without the clamp
temporalOf_Unclamped(days) == ((FullDays - Max(0, days)) * Unit) \div FullDays

\* clamp01((30 - Math.min(30, Math.max(0, days))) / 30)
temporalOf(days) ==
    clamp01(((FullDays - Min(FullDays, Max(0, days))) * Unit) \div FullDays)

techKw == {"agent", "agents", "rag", "latency", "benchmark", "release", "model",
           "inference", "github", "code", "sample", "tutorial", "ja_tejun",
           "ja_dounyuu", "ja_jissou", "ja_enjinia", "ja_kaihatsu"}

\* /(github|コード|サンプル|手順|チュートリアル|how to|guide|実装|導入)/i
HowToPattern == {"github", "ja_koodo", "ja_sanpuru", "ja_tejun", "ja_chuutoriaru",
                 "how to", "guide", "ja_jissou", "ja_dounyuu"}

\* /(roi|cost|コスト|売上|収益|採用|事業|市場|投資|影響|効率|生産性|導入|成功|ケーススタディ)/i
BizPattern == {"roi", "cost", "ja_kosuto", "ja_uriage", "ja_shuueki", "ja_saiyou",
               "ja_jigyou", "ja_shijou", "ja_toushi", "ja_eikyou", "ja_kouritsu",
               "ja_seisansei", "ja_dounyuu", "ja_seikou", "ja_keesusutadi"}

\* /(導入|ロードマップ|戦略|ケーススタディ|事例|フレームワーク|テンプレート)/
BizActionPattern == {"ja_dounyuu", "ja_roodomappu", "ja_senryaku", "ja_keesusutadi",
                     "ja_jirei", "ja_fureemuwaaku", "ja_tenpureeto"}

computeEngineerBreakdown(it, ss) ==
    LET credBase == Hundredths(credBaseOf(it.sourceDomain, ss))
        days == daysFromNow(it.publishedAt)
        temporal == temporalOf(days)
        text == TextOf(it)
        \* 0.08 per keyword hit, capped at 1
        rel == Min(Unit, Cardinality({k \in techKw : Includes(text, k)}) * Hundredths(8))
        actionabilityBoost == IF TestAny(text, HowToPattern)
                              THEN Hundredths(90) ELSE (45 * rel) \div 100
    IN  [quality |-> clamp01((60 * credBase + 40 * rel) \div 100),
         relevance |-> clamp01(rel),
         temporal |-> temporal,
         trust |-> clamp01(credBase),
         actionability |-> clamp01(actionabilityBoost)]

\* faulty variant: the business relevance pattern is never looked for
computeBusinessBreakdown_NoSignal(it, ss) ==
    LET credBase == Hundredths(credBaseOf(it.sourceDomain, ss))
        days == daysFromNow(it.publishedAt)
        temporal == temporalOf(days)
        text == TextOf(it)
        relevance == clamp01(Hundredths(40))
    IN  [quality |-> clamp01((50 * credBase + 50 * relevance) \div 100),
         relevance |-> relevance,
         temporal |-> temporal,
         trust |-> clamp01(credBase),
         actionability |-> clamp01(IF TestAny(text, BizActionPattern)
                                   THEN Hundredths(85) ELSE Hundredths(40))]

computeBusinessBreakdown(it, ss) ==
    LET credBase == Hundredths(credBaseOf(it.sourceDomain, ss))
        days == daysFromNow(it.publishedAt)
        temporal == temporalOf(days)
        text == TextOf(it)
        bizSignal == IF TestAny(text, BizPattern) THEN Hundredths(90) ELSE Hundredths(40)
        relevance == clamp01(bizSignal)
    IN  [quality |-> clamp01((50 * credBase + 50 * relevance) \div 100),
         relevance |-> relevance,
         temporal |-> temporal,
         trust |-> clamp01(credBase),
         actionability |-> clamp01(IF TestAny(text, BizActionPattern)
                                   THEN Hundredths(85) ELSE Hundredths(40))]

\* faulty variant: the sum of the five axes divided by four
breakdownAvg_DivFour(b) ==
    (b.quality + b.relevance + b.temporal + b.trust + b.actionability) \div 4

\* Simple mean of five dimensions
breakdownAvg(b) ==
    (b.quality + b.relevance + b.temporal + b.trust + b.actionability) \div 5


----------------------------------------------------------------------------
(* ensureAtLeast and the stable sort by score *)

\* Array.prototype.sort with the comparator (a,b) => key(b) - key(a) is a
\* stable sort that puts higher keys first and keeps equal keys in input
\* order.  InsertIdx puts index i into the sorted index list s behind every
\* index whose key is >= keys[i].
RECURSIVE InsertIdx(_, _, _)
InsertIdx(s, i, keys) ==
    IF s = <<>> THEN <<i>>
    ELSE IF keys[Head(s)] < keys[i] THEN <<i>> \o s
    ELSE <<Head(s)>> \o InsertIdx(Tail(s), i, keys)

RECURSIVE SortFrom(_, _, _)
SortFrom(keys, i, acc) ==
    IF i > Len(keys) THEN acc ELSE SortFrom(keys, i + 1, InsertIdx(acc, i, keys))

\* the permutation: SortedIdxBy(keys)[k] is the input index of the k-th
\* element of the sorted array
SortedIdxBy(keys) == SortFrom(keys, 1, <<>>)

\* [...items].sort((a,b) => b.score - a.score), as indices into items
SortedIdx(items) == SortedIdxBy([i \in 1..Len(items) |-> items[i].score] \o <<>>)

SortByScore(items) ==
    LET idx == SortedIdx(items) IN [k \in 1..Len(items) |-> items[idx[k]]]

PromotedMust == "fallback_promoted_top_to_must_read"
PromotedRec == "fallback_promoted_second_to_recommended"

\* faulty variant: the list itself is sorted by score
ensureAtLeast_Reordering(items) == SortByScore(items)

\* faulty variant: the lowest-scoring item is promoted to must_read
ensureAtLeast_PromoteLast(items) ==
    LET hasMust == \E i \in 1..Len(items) : items[i].label = "must_read"
        sorted == SortedIdx(items)
    IN  IF ~hasMust /\ Len(items) > 0
        THEN [items EXCEPT ![sorted[Len(items)]].label = "must_read",
                           ![sorted[Len(items)]].labelReason = PromotedMust]
        ELSE items

\* faulty variant: the top item is made recommended whatever label it holds
ensureAtLeast_Demoting(items) ==
    LET hasRec == \E i \in 1..Len(items) : items[i].label = "recommended"
        sorted == SortedIdx(items)
    IN  IF ~hasRec /\ Len(items) > 0
        THEN [items EXCEPT ![sorted[1]].label = "recommended",
                           ![sorted[1]].labelReason = PromotedRec]
        ELSE items

\* the items after ensureAtLeast(items); the sorted copy shares its elements
\* with items, so the two assignments change items in place
ensureAtLeast(items) ==
    LET hasMust == \E i \in 1..Len(items) : items[i].label = "must_read"
        hasRec == \E i \in 1..Len(items) : items[i].label = "recommended"
        sorted == SortedIdx(items)
        items1 == IF ~hasMust /\ Len(items) > 0
                  THEN [items EXCEPT ![sorted[1]].label = "must_read",
                                     ![sorted[1]].labelReason = PromotedMust]
                  ELSE items
        cand == {k \in 1..Len(items) : items1[sorted[k]].label # "must_read"}
        next == sorted[CHOOSE k \in cand : \A m \in cand : k <= m]
    IN  IF ~hasRec /\ cand # {}
        THEN [items1 EXCEPT ![next].label = "recommended",
                            ![next].labelReason = PromotedRec]
        ELSE items1


----------------------------------------------------------------------------
(* URLs and domains *)

Url(host) == [valid |-> TRUE, host |-> host]
BadUrl == [valid |-> FALSE, host |-> EmptyString]

multi == {<<"co", "jp">>, <<"ne", "jp">>, <<"or", "jp">>, <<"ac", "jp">>,
          <<"go", "jp">>, <<"co", "uk">>, <<"org", "uk">>, <<"gov", "uk">>}

\* label.endsWith(suffix) for the labels of the model
LabelEndsWith(label, suffix) ==
    \/ label = suffix
    \/ label = "tesco" /\ suffix = "co"

\* host.endsWith(s) for a two-label suffix s
HostEndsWith(host, s) ==
    /\ Len(host) >= 2
    /\ host[Len(host)] = s[2]
    /\ LabelEndsWith(host[Len(host) - 1], s[1])

\* parts.slice(-n)
LastLabels(host, n) ==
    IF Len(host) <= n THEN host ELSE SubSeq(host, Len(host) - n + 1, Len(host))

\* enrich.ts extractDomain (the same text in part_003 and docs/script.js)
extractDomain(u) ==
    IF ~u.valid THEN EmptyString
    ELSE IF \E s \in multi : HostEndsWith(u.host, s)
         THEN LastLabels(u.host, 3)
         ELSE LastLabels(u.host, 2)

\* 'https://' + source parsed as a URL: a name with a space in it is no URL
SourceUrl(source) ==
    IF source \in {<<"OpenAI Blog">>, <<"Example News">>} THEN BadUrl ELSE Url(source)

----------------------------------------------------------------------------
(* Inputs *)

Date(kind, age) == [kind |-> kind, age |-> age]

\* an item as enrich.ts writes it (the id is given when the item enters a list)
MkItem(title, summary, url, source, publishedAt) ==
    [title |-> title, summary |-> summary, url |-> url, source |-> source,
     sourceDomain |-> OrElse(extractDomain(url), extractDomain(SourceUrl(source))),
     publishedAt |-> publishedAt, tags |-> <<"rss_feed">>]

OpenAiUrl == Url(<<"www", "openai", "com">>)
ExampleUrl == Url(<<"blog", "example", "co", "jp">>)

\* the items of the feeds of Spec
FeedItems ==
    { MkItem("OpenAI releases new benchmark-topping model", <<>>, OpenAiUrl,
             <<"OpenAI Blog">>, Date("dateonly", 0)),
      MkItem("storage cost", <<>>, ExampleUrl, <<"Example News">>, Date("dateonly", 0)),
      MkItem("weekly notes", <<>>, ExampleUrl, <<"Example News">>, Date("datetime", 0)),
      MkItem("agents and rag cut latency", <<"ja_dounyuu ja_keesusutadi">>, BadUrl,
             <<"Example News">>, Date("dateonly", 15)),
      MkItem("weekly notes", <<>>, ExampleUrl, <<"Example News">>, Date("garbage", 0)) }

Titles == {"OpenAI releases new benchmark-topping model", "weekly notes"}

SummaryPhrases == <<"agents and rag cut latency", "storage cost",
                    "GitHub sample code tutorial",
                    "SOTA inference security evaluation tooling",
                    "ja_dounyuu ja_keesusutadi">>

\* the subsequence of s at the positions in S
RECURSIVE Pick(_, _, _)
Pick(s, S, i) ==
    IF i > Len(s) THEN <<>>
    ELSE (IF i \in S THEN <<s[i]>> ELSE <<>>) \o Pick(s, S, i + 1)

Summaries == {Pick(SummaryPhrases, S, 1) : S \in SUBSET (1..Len(SummaryPhrases))}

Dates == {Date("datetime", -1), Date("dateonly", 0), Date("dateonly", 15),
          Date("datetime", 30), Date("dateonly", 31), Date("garbage", 0),
          Date("empty", 0)}

\* the items of the single-item runs of SpecItem
AllItems ==
    { MkItem(t, s, u, <<"Example News">>, d) :
        t \in Titles, s \in Summaries, u \in {OpenAiUrl, BadUrl}, d \in Dates }

\* the items of the two-item feeds of SpecPair
PairItems ==
    { MkItem(t, s, u, <<"Example News">>, d) :
        t \in {"quarterly ROI report", "OpenAI releases new benchmark-topping model",
                "agents and rag cut latency", "storage cost", "weekly notes"},
        s \in {<<>>, <<"ja_dounyuu ja_keesusutadi">>},
        u \in {OpenAiUrl, ExampleUrl},
        d \in {Date("dateonly", 0), Date("dateonly", 15)} }

OpenAiCom == <<"openai", "com">>
ExampleCom == <<"example", "com">>

\* the contents of config/source_scores.json, weights in hundredths
Tables ==
    { DefaultKey :> 50 @@ OpenAiCom :> 95,
      <<>>,
      DefaultKey :> 80,
      DefaultKey :> 100 @@ OpenAiCom :> 79 }

\* further tables for the single-item runs: one that names the placeholder
\* domain, and one with a weight outside [0,1]
ItemTables ==
    Tables \cup { DefaultKey :> 0 @@ ExampleCom :> 100,
                  DefaultKey :> 120 }

WithId(it, i) == [id |-> [prefix |-> "rss_", n |-> i]] @@ it

\* the list of n items that repeats base
Cycle(base, n) == [i \in 1..n |-> WithId(base[((i - 1) % Len(base)) + 1], i)]

PairFeeds == {<<WithId(a, 1), WithId(b, 2)>> : a \in PairItems, b \in PairItems}

\* a null entry of the list in news.enriched.json
NullRecord == [null |-> TRUE]

IsNull(it) == "null" \in DOMAIN it

\* lists of up to MaxBroken entries, each an item or null
MaxBroken == 3

BrokenFeeds ==
    UNION {{[i \in 1..k |-> IF IsNull(base[i]) THEN NullRecord ELSE WithId(base[i], i)] :
                base \in [1..k -> FeedItems \cup {NullRecord}]} : k \in 1..MaxBroken}

Bases(maxLen) == UNION {[1..k -> FeedItems] : k \in 1..maxLen}

\* the empty feed, every short feed, five-item feeds, and feeds around the
\* minimum of 20 items
Feeds ==
    {<<>>}
    \cup {Cycle(base, Len(base)) : base \in Bases(MaxVaried)}
    \cup {Cycle(base, 5) : base \in Bases(MaxPattern)}
    \cup {Cycle(base, n) : base \in Bases(MaxPattern),
                           n \in (MinItems - 1)..(MinItems + MaxOver)}


----------------------------------------------------------------------------
(* The scoring run: main() of score.ts *)

File(content) == [exists |-> TRUE, content |-> content]
NoFile == [exists |-> FALSE, content |-> <<>>]

\* readEnriched
readEnriched(file) == IF file.exists THEN file.content ELSE <<>>

\* a file that is there and is not JSON
CorruptFile == [exists |-> TRUE, content |-> <<>>, parses |-> FALSE]

\* JSON.parse of the file's text returns
Parses(file) == "parses" \notin DOMAIN file \/ file.parses

\* readSourceScores: a file that cannot be read or parsed gives { default: 0.5 }
readSourceScores(file) ==
    IF file.exists /\ Parses(file) THEN file.content ELSE DefaultKey :> 50

\* a property read on null: it.publishedAt in scoreItem throws a TypeError
Throws(items) == \E i \in 1..Len(items) : IsNull(items[i])

\* the body of enriched.map in main
ScoreOne(it, ss) ==
    LET engineer == computeEngineerBreakdown(it, ss)
        business == computeBusinessBreakdown(it, ss)
        sc == scoreItem(it, ss)
    IN  [score |-> sc,
         label |-> labelFromScore(sc),
         labelReason |-> Undefined,
         source_tier |-> determineTier(OrElse(it.sourceDomain, EmptyString), ss),
         evaluation |->
            [engineer |-> [total_score |-> breakdownAvg(engineer), breakdown |-> engineer],
             business |-> [total_score |-> breakdownAvg(business), breakdown |-> business]]]
        @@ it

PlaceholderBreakdown ==
    [quality |-> Hundredths(50), relevance |-> Hundredths(40), temporal |-> Hundredths(50),
     trust |-> Hundredths(50), actionability |-> Hundredths(30)]

\* the placeholder of loop index i (0-based); the id is
\* `dummy_${Date.now().toString(36)}_${i}`, of which the time part is left out,
\* and the title, which also carries i+1, is one fixed phrase
Placeholder(i, ss) ==
    [id |-> [prefix |-> "dummy_", n |-> i],
     title |-> "placeholder title",
     summary |-> <<"placeholder summary">>,
     url |-> Url(ExampleCom),
     source |-> <<"placeholder">>,
     sourceDomain |-> ExampleCom,
     publishedAt |-> Date("dateonly", 0),
     tags |-> <<"placeholder">>,
     score |-> PlaceholderScore,
     label |-> "consider",
     labelReason |-> Undefined,
     source_tier |-> determineTier(ExampleCom, ss),
     evaluation |->
        [engineer |-> [total_score |-> Hundredths(45), breakdown |-> PlaceholderBreakdown],
         business |-> [total_score |-> Hundredths(45), breakdown |-> PlaceholderBreakdown]]]

\* faulty variant: the padding loop stops one placeholder short
PadToMin_OneShort(items, ss) ==
    IF Len(items) < MinItems
    THEN items \o [k \in 1..(MinItems - Len(items) - 1) |-> Placeholder(k - 1, ss)]
    ELSE items

\* Ensure at least 20 items always by adding safe dummies
PadToMin(items, ss) ==
    IF Len(items) < MinItems
    THEN items \o [k \in 1..(MinItems - Len(items)) |-> Placeholder(k - 1, ss)]
    ELSE items

\* faulty variant: the output drops labelReason
mapToOutput_NoReason(items) ==
    [k \in 1..Len(items) |-> [items[k] EXCEPT !.labelReason = Undefined]]

mapToOutput(items) ==
    [k \in 1..Len(items) |->
        [id |-> items[k].id,
         title |-> items[k].title,
         summary |-> items[k].summary,
         url |-> items[k].url,
         source |-> OrElse(items[k].sourceDomain, items[k].source),
         source_tier |-> items[k].source_tier,
         publishedAt |-> items[k].publishedAt,
         tags |-> items[k].tags,
         score |-> items[k].score,
         label |-> items[k].label,
         labelReason |-> items[k].labelReason,
         evaluation |-> items[k].evaluation]]

NoResults == [ran |-> FALSE]

\* main, lines 183-203: read the inputs and score every item
MainScore ==
    /\ pc = "start"
    /\ ~Throws(readEnriched(enrichedFile))
    /\ sourceScores' = readSourceScores(configFile)
    /\ scored' = [i \in 1..Len(readEnriched(enrichedFile)) |->
                    ScoreOne(readEnriched(enrichedFile)[i], sourceScores')]
    /\ pc' = "scored"
    /\ UNCHANGED <<enrichedFile, configFile, written, results>>
    /\ UNCHANGED <<pageVars, kpVars, enrichVars, dashVars>>

\* main, lines 186-203: scoreItem throws inside enriched.map, which nothing
\* catches; the run ends before ensureAtLeast and writeOutputs
MainFail ==
    /\ pc = "start"
    /\ Throws(readEnriched(enrichedFile))
    /\ sourceScores' = readSourceScores(configFile)
    /\ pc' = "failed"
    /\ UNCHANGED <<enrichedFile, configFile, scored, written, results>>
    /\ UNCHANGED <<pageVars, kpVars, enrichVars, dashVars>>

\* main, line 204
MainEnsure ==
    /\ pc = "scored"
    /\ scored' = ensureAtLeast(scored)
    /\ pc' = "ensured"
    /\ UNCHANGED <<enrichedFile, configFile, sourceScores, written, results>>
    /\ UNCHANGED <<pageVars, kpVars, enrichVars, dashVars>>

\* main, lines 205-231
MainPad ==
    /\ pc = "ensured"
    /\ scored' = PadToMin(scored, sourceScores)
    /\ pc' = "padded"
    /\ UNCHANGED <<enrichedFile, configFile, sourceScores, written, results>>
    /\ UNCHANGED <<pageVars, kpVars, enrichVars, dashVars>>

\* main, lines 232-234: sort by score and write the output files
MainSortWrite ==
    /\ pc = "padded"
    /\ scored' = SortByScore(scored)
    /\ written' = File(mapToOutput(scored'))
    /\ pc' = "written"
    /\ UNCHANGED <<enrichedFile, configFile, sourceScores, results>>
    /\ UNCHANGED <<pageVars, kpVars, enrichVars, dashVars>>


----------------------------------------------------------------------------
(* The acceptance check (part_003), run on the written output *)

TIER1_DOMAINS == {<<"openai", "com">>, <<"ai", "googleblog", "com">>,
                  <<"googleblog", "com">>, <<"anthropic", "com">>,
                  <<"techcrunch", "com">>, <<"venturebeat", "com">>}

LowerLabel(l) ==
    CASE l = "Example News" -> "example news"
      [] l = "OpenAI Blog" -> "openai blog"
      [] OTHER -> l

\* s.toLowerCase() on a string held as labels
LowerLabels(s) == [i \in 1..Len(s) |-> LowerLabel(s[i])]

\* part_003 daysFromNow: an empty value is 999 days old; a string that is no
\* date and does not end in YYYY-MM-DD is replaced by new Date(), the present
acceptDaysFromNow(dateStr) ==
    IF dateStr.kind = "empty" THEN StaleDays
    ELSE LET diff == IF IsDate(dateStr) THEN dateStr.age ELSE 0
         IN  IF diff < 0 THEN 0 ELSE diff

\* the domain both totals resolve; a written item has no sourceDomain field
acceptDomain(a) == LowerLabels(OrElse(OrElse(EmptyString, extractDomain(a.url)), a.source))

acceptTechKw == {"agent", "agents", "rag", "latency", "benchmark", "release", "model",
                 "inference", "github", "code", "sample", "tutorial", "ja_tejun",
                 "ja_dounyuu", "ja_jissou", "ja_kaihatsu"}

engineerTotal(a) ==
    LET trust == IF acceptDomain(a) \in TIER1_DOMAINS THEN Hundredths(90) ELSE Hundredths(50)
        temporal == clamp01(((FullDays - Min(FullDays, acceptDaysFromNow(a.publishedAt)))
                             * Unit) \div FullDays)
        text == TextOf(a)
        rel == Min(Unit, Cardinality({k \in acceptTechKw : Includes(text, k)}) * Hundredths(8))
        quality == clamp01((60 * trust + 40 * rel) \div 100)
        actionability == IF TestAny(text, HowToPattern)
                         THEN Hundredths(90) ELSE (45 * rel) \div 100
    IN  (quality + rel + temporal + trust + actionability) \div 5

businessTotal(a) ==
    LET trust == IF acceptDomain(a) \in TIER1_DOMAINS THEN Hundredths(90) ELSE Hundredths(50)
        temporal == clamp01(((FullDays - Min(FullDays, acceptDaysFromNow(a.publishedAt)))
                             * Unit) \div FullDays)
        text == TextOf(a)
        relevance == IF TestAny(text, BizPattern) THEN Hundredths(90) ELSE Hundredths(40)
        quality == clamp01((50 * trust + 50 * relevance) \div 100)
        actionability == IF TestAny(text, BizActionPattern)
                         THEN Hundredths(85) ELSE Hundredths(40)
    IN  (quality + relevance + temporal + trust + actionability) \div 5

RECURSIVE SumSeq(_, _)
SumSeq(s, i) == IF i > Len(s) THEN 0 ELSE s[i] + SumSeq(s, i + 1)

TopShown == 10

\* testAcceptance checks 1 to 5 and checkFreshness (the checks of the style
\* sheet and of the page's meta tags read files that are not modelled)
acceptanceResults(a) ==
    LET n == Len(a)
        eng == [i \in 1..n |-> engineerTotal(a[i])] \o <<>>
        biz == [i \in 1..n |-> businessTotal(a[i])] \o <<>>
        topEng == SortedIdxBy(biz)
        topBiz == SortedIdxBy(eng)
        tier1 == {i \in 1..n : \/ a[i].source_tier = 1
                               \/ LowerLabels(a[i].source) \in TIER1_DOMAINS}
        tooOld == {i \in 1..n : \/ ~IsDate(a[i].publishedAt)
                                \/ a[i].publishedAt.age >= 2}
    IN  [ran |-> TRUE,
         count |-> n >= MinItems,
         hasMust |-> \E i \in 1..n : a[i].label = "must_read",
         hasRec |-> \E i \in 1..n : a[i].label = "recommended",
         avgEngineer |-> SumSeq(eng, 1) > 0,
         avgBusiness |-> SumSeq(biz, 1) > 0,
         tier1 |-> tier1 # {},
         personaOrderDiffers |->
            \E k \in 1..Min(TopShown, n) : a[topEng[k]].id # a[topBiz[k]].id,
         freshness |-> tooOld = {}]

\* the acceptance script, run after the scoring run has written its output
TestAcceptance ==
    /\ pc = "written"
    /\ written.exists
    /\ results' = acceptanceResults(written.content)
    /\ pc' = "tested"
    /\ UNCHANGED <<enrichedFile, configFile, sourceScores, scored, written>>
    /\ UNCHANGED <<pageVars, kpVars, enrichVars, dashVars>>

----------------------------------------------------------------------------
(* Key points: deriveLabeledKeyPoints and extractKeyPoints of docs/script.js *)

(***************************************************************************)
(* A text is the list of sentences splitSentences returns for it.  A       *)
(* sentence is a record of what the extraction reads from it: its length,  *)
(* the categories whose pattern it matches, the extra-score signals it     *)
(* holds, how many of the generic keywords it includes and its first 12    *)
(* characters.  Categories: ja_happyou 発表, ja_dounyuu 導入, ja_seinou    *)
(* 性能, ja_kenkyuu 研究, ja_eikyou 影響, ja_chuui 注意.                   *)
(***************************************************************************)

\* texts of up to MaxSentences sentences
MaxSentences == 4

\* requested counts 0..MaxCount
MaxCount == 3

MinLabeledLen == 20
MinGenericLen == 25
PatternBonus == 70
LengthDivisor == 200

Sentence(text, len, cats, signals, kwHits, prefix) ==
    [text |-> text, len |-> len, cats |-> cats, signals |-> signals,
     kwHits |-> kwHits, prefix |-> prefix]

Sentences ==
    { Sentence("OpenAI ga atarashii moderu wo happyou shimashita.", 32,
               {"ja_happyou"}, {}, 4, "OpenAI ga at"),
      Sentence("GitHub no sanpuru koodo de tejun wo kakunin dekimasu.", 30,
               {"ja_dounyuu"}, {"code"}, 0, "GitHub no sa"),
      Sentence("dounyuu kosuto ga sagari ROI ga kaizen shimasu.", 28,
               {"ja_dounyuu", "ja_eikyou"}, {"roi"}, 3, "dounyuu kosu"),
      Sentence("AI to LLM no katsuyou ga hirogatte imasu.", 30,
               {}, {}, 2, "AI to LLM no"),
      Sentence("AI to LLM no riyou ga kakudai shite imasu ne.", 34,
               {}, {}, 2, "AI to LLM no"),
      Sentence("kenkyuu ronbun ga deta.", 23,
               {"ja_kenkyuu"}, {}, 1, "kenkyuu ronb") }

Texts == UNION {[1..n -> Sentences] : n \in 0..MaxSentences}

\* extraScore without its length term
extraScore(s) ==
    (IF "percent" \in s.signals THEN 80 ELSE 0)
    + (IF "number" \in s.signals THEN 50 ELSE 0)
    + (IF "link" \in s.signals THEN 30 ELSE 0)
    + (IF "code" \in s.signals THEN 60 ELSE 0)
    + (IF "roi" \in s.signals THEN 60 ELSE 0)

personaOrder(persona) ==
    IF persona = "business"
    THEN <<"ja_happyou", "ja_eikyou", "ja_dounyuu", "ja_seinou", "ja_kenkyuu", "ja_chuui">>
    ELSE <<"ja_happyou", "ja_dounyuu", "ja_seinou", "ja_kenkyuu", "ja_eikyou", "ja_chuui">>

\* base + extraScore(s), times 200 so that s.length/200 stays an integer
CategoryScore(s) == (PatternBonus + extraScore(s)) * LengthDivisor + s.len

\* the inner loop: the first unused matching sentence of the highest score,
\* or 0 when no unused sentence matches
bestIdx(text, used, key) ==
    LET cand == {i \in 1..Len(text) :
                    /\ text[i].len > MinLabeledLen
                    /\ i \notin used
                    /\ key \in text[i].cats}
    IN  IF cand = {} THEN 0
        ELSE CHOOSE i \in cand : \A j \in cand :
                \/ CategoryScore(text[j]) < CategoryScore(text[i])
                \/ CategoryScore(text[j]) = CategoryScore(text[i]) /\ i <= j

\* the loop over personaOrder from its k-th category on
RECURSIVE CategoryPicks(_, _, _, _, _, _)
CategoryPicks(text, count, order, k, used, res) ==
    IF k > Len(order) THEN res
    ELSE LET b == bestIdx(text, used, order[k])
             res1 == IF b > 0
                     THEN Append(res, [label |-> order[k], text |-> text[b].text, src |-> b])
                     ELSE res
         IN  IF Len(res1) >= count THEN res1
             ELSE CategoryPicks(text, count, order, k + 1,
                                IF b > 0 THEN used \cup {b} ELSE used, res1)

\* uniq: a pick is kept unless a kept pick has the same first 12 characters
RECURSIVE Uniq(_, _, _, _)
Uniq(text, picks, k, acc) ==
    IF k > Len(picks) THEN acc
    ELSE Uniq(text, picks, k + 1,
              IF \E u \in 1..Len(acc) : text[acc[u]].prefix = text[picks[k]].prefix
              THEN acc ELSE Append(acc, picks[k]))

\* the positions, in text, of the sentences extractKeyPoints returns
extractKeyPoints(text, count) ==
    LET sents == SelectSeq([i \in 1..Len(text) |-> i] \o <<>>,
                           LAMBDA i : text[i].len > MinGenericLen)
        keys == [k \in 1..Len(sents) |->
                    text[sents[k]].kwHits * LengthDivisor + text[sents[k]].len] \o <<>>
        idx == SortedIdxBy(keys)
        picks == [k \in 1..Min(count, Len(sents)) |-> sents[idx[k]]] \o <<>>
    IN  Uniq(text, picks, 1, <<>>)

\* the generic backfill of deriveLabeledKeyPoints
Backfill(text, count, res) ==
    IF Len(res) < count
    THEN LET more == extractKeyPoints(text, count - Len(res))
         IN  res \o [k \in 1..Len(more) |->
                        [label |-> "", text |-> text[more[k]].text, src |-> more[k]]]
    ELSE res

\* faulty variant: the result is not cut to count entries
Slice_All(res, count) == res

\* results.slice(0, count), count >= 0
Slice(res, count) == SubSeq(res, 1, Min(count, Len(res)))

deriveLabeledKeyPoints(text, count, persona) ==
    Slice(Backfill(text, count,
                   CategoryPicks(text, count, personaOrder(persona), 1, {}, <<>>)),
          count)

\* one call of deriveLabeledKeyPoints
DeriveKeyPoints ==
    /\ pc = "kp_start"
    /\ kpResults' = deriveLabeledKeyPoints(kpText, kpCount, currentPersona)
    /\ pc' = "kp_done"
    /\ UNCHANGED <<enrichedFile, configFile, sourceScores, scored, written, results>>
    /\ UNCHANGED <<pageVars, kpText, kpCount, enrichVars, dashVars>>

----------------------------------------------------------------------------
(* The page: docs/script.js *)

\* article lists of up to MaxArticles items
MaxArticles == 11

limitTop == 8
limitX == 10
limitCompact == 5

\* an article of news.generated.json or news.json as the page reads it; a
\* missing label or content is Undefined, a missing source_tier is 0 and a
\* missing evaluation is the empty function
Article(title, content, source, tier, label, tags, evaluation) ==
    [title |-> title, content |-> content, source |-> source, source_tier |-> tier,
     label |-> label, tags |-> tags, evaluation |-> evaluation]

Eval(eng, biz) ==
    [engineer |-> [total_score |-> Hundredths(eng)],
     business |-> [total_score |-> Hundredths(biz)]]

\* an evaluation of news.json that carries a recommendation per persona
EvalRec(eng, engRec, biz, bizRec) ==
    [engineer |-> [total_score |-> Hundredths(eng), recommendation |-> engRec],
     business |-> [total_score |-> Hundredths(biz), recommendation |-> bizRec]]

\* an article as mapToOutput writes it: its text is in the field summary and
\* it has no field content
WithSummary(article, summary) == [summary |-> summary] @@ article

PageItems ==
    { Article("OpenAI releases new benchmark-topping model", Undefined, "openai.com",
              1, "must_read", <<"rss_feed">>, Eval(88, 60)),
      Article("weekly notes", Undefined, "example.com",
              2, "must_read", <<"rss_feed">>, Eval(60, 88)),
      Article("storage cost", Undefined, "example.com",
              2, "recommended", <<"rss_feed">>, Eval(70, 40)),
      Article("weekly notes", "analysis of OpenAI pricing", "example.com",
              2, "consider", <<"rss_feed">>, Eval(60, 60)),
      Article("weekly notes", Undefined, "X(@sama)",
              2, "consider", <<"x_post">>, Eval(50, 55)),
      Article("weekly notes", Undefined, "example.com",
              1, "skip", <<>>, Eval(30, 30)),
      Article("storage cost", "analysis of OpenAI pricing", "example.com",
              0, Undefined, <<>>, <<>>),
      Article("storage cost", Undefined, "example.com",
              2, Undefined, <<>>, EvalRec(65, "must_read", 35, "skip")),
      WithSummary(Article("weekly notes", Undefined, "example.com",
                          2, "recommended", <<"rss_feed">>, Eval(62, 58)),
                  "analysis of OpenAI pricing") }

\* lists that repeat one or two kinds of article, each item with its own id
PageFeeds ==
    {[i \in 1..n |-> [id |-> i] @@ (IF i % 2 = 1 THEN a ELSE b)] :
        a \in PageItems, b \in PageItems, n \in 0..MaxArticles}

TierValues == {"all", "1", "2"}
ScoreValues == {"0", "0.6"}
SearchValues == {"", "OpenAI", "undefined"}

\* parseInt of a value of the tier select
ParseInt(v) == IF v = "1" THEN 1 ELSE 2

\* parseFloat(value || 0) of a value of the slider
ParseFloat(v) == IF v = "0.6" THEN Hundredths(60) ELSE 0

\* String.prototype.toLowerCase on the search values
LowerQuery(q) == IF q = "OpenAI" THEN "openai" ELSE q

\* the lower-cased search values a lower-cased string includes
PageSubstrings(str) ==
    CASE str = "OpenAI releases new benchmark-topping model" -> {"", "openai"}
      [] str = "analysis of OpenAI pricing" -> {"", "openai"}
      [] str = "openai.com" -> {"", "openai"}
      [] str = Undefined -> {"", "undefined"}
      [] OTHER -> {""}

\* (article.title + article.content + article.source).toLowerCase()
\*     .includes(searchQuery); no search value of the model straddles two
\* of the three parts
HaystackIncludes(article, query) ==
    \E part \in {article.title, article.content, article.source} :
        query \in PageSubstrings(part)

getPersonaScore(article, persona) ==
    IF persona \in DOMAIN article.evaluation
    THEN article.evaluation[persona].total_score
    ELSE 0

getLabelFor(article, persona) ==
    IF article.label # Undefined THEN article.label
    ELSE IF /\ persona \in DOMAIN article.evaluation
            /\ "recommendation" \in DOMAIN article.evaluation[persona]
         THEN article.evaluation[persona].recommendation
         ELSE "consider"

isX(a) ==
    \/ a.source = "X(@sama)"
    \/ \E t \in 1..Len(a.tags) : a.tags[t] = "x_post"

\* faulty variant: the filter starts from the previous filtered list
FilterSource_Previous(all, previous) == previous

\* applyFilters filters (window.articles || [])
FilterSource(all, previous) == all

Passes(article, persona, tier, minScore, search) ==
    /\ ~(tier # "all" /\ article.source_tier # ParseInt(tier))
    /\ ~(getPersonaScore(article, persona) < ParseFloat(minScore))
    /\ LowerQuery(search) # "" => HaystackIncludes(article, LowerQuery(search))

\* the array applyFilters assigns to filteredArticles
applyFilters(all, previous, persona, tier, minScore, search) ==
    SelectSeq(FilterSource(all, previous),
              LAMBDA a : Passes(a, persona, tier, minScore, search))

\* faulty variant: the bucket is left in input order
SortGroup_Unsorted(items, persona) == items

\* items.sort((a,b) => getPersonaScore(b) - getPersonaScore(a))
SortGroup(items, persona) ==
    LET idx == SortedIdxBy([k \in 1..Len(items) |->
                               getPersonaScore(items[k], persona)] \o <<>>)
    IN  [k \in 1..Len(items) |-> items[idx[k]]] \o <<>>

\* the articles renderArticles puts into the bucket rec
Group(filtered, rec, persona) ==
    IF rec = "x" THEN SelectSeq(filtered, isX)
    ELSE SelectSeq(filtered, LAMBDA a : ~isX(a) /\ getLabelFor(a, persona) = rec)

\* whether the element built for the article at zero-based position idx of
\* the bucket rec carries the class 'extra'
IsExtra(rec, idx) ==
    IF rec \in {"must_read", "recommended"} THEN idx >= limitTop
    ELSE IF rec = "x" THEN idx >= limitX
    ELSE FALSE

\* whether the section of the bucket rec gets a show-more button
HasShowMore(rec, n) ==
    \/ rec = "x" /\ n > limitX
    \/ rec \in {"consider", "skip"} /\ n > limitCompact
    \/ rec \in {"must_read", "recommended"} /\ n > limitTop

RecOrder == <<"x", "must_read", "recommended", "consider", "skip">>

\* the section renderArticles appends for the bucket rec
Section(filtered, persona, rec) ==
    LET sorted == SortGroup(Group(filtered, rec, persona), persona)
    IN  [rec |-> rec,
         items |-> [k \in 1..Len(sorted) |->
                       [article |-> sorted[k], extra |-> IsExtra(rec, k - 1)]] \o <<>>,
         showMore |-> HasShowMore(rec, Len(sorted))]

\* the sections of #articles-container after renderArticles; a bucket without
\* items gets no section
renderArticles(filtered, persona) ==
    SelectSeq([r \in 1..Len(RecOrder) |-> Section(filtered, persona, RecOrder[r])] \o <<>>,
              LAMBDA sec : Len(sec.items) > 0)

\* faulty variant: the numbers are those of the rendered, capped part
updateRecNavCounts_Shown(filtered, persona) ==
    [rec \in {RecOrder[r] : r \in 1..Len(RecOrder)} |->
        Min(Len(Group(filtered, rec, persona)),
            IF rec = "x" THEN limitX
            ELSE IF rec \in {"must_read", "recommended"} THEN limitTop
            ELSE limitCompact)]

\* updateRecNavCounts(groups): the length of each of the five buckets
updateRecNavCounts(filtered, persona) ==
    [rec \in {RecOrder[r] : r \in 1..Len(RecOrder)} |->
        Len(Group(filtered, rec, persona))]

\* faulty variant: the statistics of the whole list
updateSummaryStats_All(all, filtered, persona) ==
    [total |-> Len(all),
     avg |-> Round(100 * SumSeq([k \in 1..Len(all) |->
                                   getPersonaScore(all[k], persona)] \o <<>>, 1),
                   (IF Len(all) = 0 THEN 1 ELSE Len(all)) * Unit),
     tier1 |-> Len(SelectSeq(all, LAMBDA a : a.source_tier = 1))]

\* updateSummaryStats: the count, Math.round(avgScore * 100) and the tier-1
\* count of filteredArticles
updateSummaryStats(all, filtered, persona) ==
    [total |-> Len(filtered),
     avg |-> Round(100 * SumSeq([k \in 1..Len(filtered) |->
                                   getPersonaScore(filtered[k], persona)] \o <<>>, 1),
                   (IF Len(filtered) = 0 THEN 1 ELSE Len(filtered)) * Unit),
     tier1 |-> Len(SelectSeq(filtered, LAMBDA a : a.source_tier = 1))]

\* faulty variant: the sort of the render reaches window.articles
articlesAfterRender_InPlace(all, persona) == SortGroup(all, persona)

\* window.articles after a render: filter() and [...] hand renderArticles new
\* arrays, so its sorts never reach the loaded array
articlesAfterRender(all, persona) == all

ScoringIdle ==
    UNCHANGED <<enrichedFile, configFile, sourceScores, scored, written, results>>

\* DOMContentLoaded: the data is loaded, initUI registers the handlers and
\* the full list is rendered
PageLoad ==
    /\ pc = "page_loading"
    /\ filteredArticles' = articles
    /\ container' = renderArticles(filteredArticles', currentPersona)
    /\ navCounts' = updateRecNavCounts(filteredArticles', currentPersona)
    /\ articles' = articlesAfterRender(articles, currentPersona)
    /\ stats' = updateSummaryStats(articles', filteredArticles', currentPersona)
    /\ pc' = "page_ready"
    /\ UNCHANGED <<currentPersona, tierFilter, minScoreFilter, searchInput>>
    /\ UNCHANGED <<kpVars, enrichVars, dashVars>>
    /\ ScoringIdle

\* applyFilters, run by every handler on the values the controls then hold
ApplyFilters ==
    /\ filteredArticles' = applyFilters(articles, filteredArticles, currentPersona',
                                        tierFilter', minScoreFilter', searchInput')
    /\ container' = renderArticles(filteredArticles', currentPersona')
    /\ navCounts' = updateRecNavCounts(filteredArticles', currentPersona')
    /\ articles' = articlesAfterRender(articles, currentPersona')
    /\ stats' = updateSummaryStats(articles', filteredArticles', currentPersona')
    /\ UNCHANGED pc
    /\ UNCHANGED <<kpVars, enrichVars, dashVars>>
    /\ ScoringIdle

\* click on a persona button
ClickPersona ==
    /\ pc = "page_ready"
    /\ \E p \in {"engineer", "business"} : currentPersona' = p
    /\ UNCHANGED <<tierFilter, minScoreFilter, searchInput>>
    /\ ApplyFilters

\* change of the tier select
ChangeTier ==
    /\ pc = "page_ready"
    /\ \E v \in TierValues : tierFilter' = v
    /\ UNCHANGED <<currentPersona, minScoreFilter, searchInput>>
    /\ ApplyFilters

\* input on the minimum-score slider
InputMinScore ==
    /\ pc = "page_ready"
    /\ \E v \in ScoreValues : minScoreFilter' = v
    /\ UNCHANGED <<currentPersona, tierFilter, searchInput>>
    /\ ApplyFilters

\* input in the search box
InputSearch ==
    /\ pc = "page_ready"
    /\ \E q \in SearchValues : searchInput' = q
    /\ UNCHANGED <<currentPersona, tierFilter, minScoreFilter>>
    /\ ApplyFilters

----------------------------------------------------------------------------
(* The dashboard: class DashboardController (part_002) *)

\* article lists of up to MaxDash items
MaxDash == 3

\* an article of the embedded #articles-data
DashArticle(title, source, tier, difficulty, evaluation) ==
    [title |-> title, content |-> "body", source |-> source, tags |-> <<"rss_feed">>,
     source_tier |-> tier, difficulty_level |-> difficulty, evaluation |-> evaluation]

DashItems ==
    { DashArticle("OpenAI releases new benchmark-topping model", "openai.com",
                  1, "advanced", Eval(88, 60)),
      DashArticle("open source weekly", "example.com", 2, "beginner", Eval(55, 70)),
      DashArticle("weekly notes", "example.com", 2, "beginner", Eval(70, 40)) }

DashFeeds ==
    UNION {{[i \in 1..n |-> [id |-> i] @@ base[i]] : base \in [1..n -> DashItems]} :
              n \in 1..MaxDash}

DashTierValues == {"all", "1"}
DashScoreValues == {"0", "0.6"}
DashDifficultyValues == {"all", "beginner"}
DashQueries == {"", "open", "OpenAI"}

\* query.toLowerCase()
DashLower(q) == IF q = "OpenAI" THEN "openai" ELSE q

\* the lower-cased queries a lower-cased title, content, source or tag includes
DashSubstrings(str) ==
    CASE str = "OpenAI releases new benchmark-topping model" -> {"", "open", "openai"}
      [] str = "openai.com" -> {"", "open", "openai"}
      [] str = "open source weekly" -> {"", "open"}
      [] OTHER -> {""}

\* DashboardController.getPersonaScore
DashboardController_getPersonaScore(article, persona) ==
    IF persona \in DOMAIN article.evaluation
    THEN article.evaluation[persona].total_score
    ELSE 0

\* the in-place sort of renderArticles: this.filteredArticles.sort(...)
DashboardController_renderArticles(filtered, persona) ==
    LET idx == SortedIdxBy([k \in 1..Len(filtered) |->
                   DashboardController_getPersonaScore(filtered[k], persona)] \o <<>>)
    IN  [k \in 1..Len(filtered) |-> filtered[idx[k]]] \o <<>>

\* the filter of DashboardController.applyFilters
DashboardController_applyFilters(all, persona, c) ==
    SelectSeq(all, LAMBDA article :
        /\ ~(c.sourceTier # "all" /\ article.source_tier # ParseInt(c.sourceTier))
        /\ ~(DashboardController_getPersonaScore(article, persona) < ParseFloat(c.minScore))
        /\ ~(c.difficulty # "all" /\ article.difficulty_level # c.difficulty))

\* the filter of DashboardController.searchArticles for a query that is not blank
DashboardController_searchArticles(filtered, query) ==
    SelectSeq(filtered, LAMBDA article :
        \/ DashLower(query) \in DashSubstrings(article.title)
        \/ DashLower(query) \in DashSubstrings(article.content)
        \/ DashLower(query) \in DashSubstrings(article.source)
        \/ \E t \in 1..Len(article.tags) : DashLower(query) \in DashSubstrings(article.tags[t]))

\* DashboardController.updateSummaryStats
DashboardController_updateSummaryStats(filtered, persona) ==
    [total |-> Len(filtered),
     avg |-> IF Len(filtered) = 0 THEN 0
             ELSE Round(100 * SumSeq([k \in 1..Len(filtered) |->
                      DashboardController_getPersonaScore(filtered[k], persona)] \o <<>>, 1),
                        Len(filtered) * Unit),
     tier1 |-> Len(SelectSeq(filtered, LAMBDA a : a.source_tier = 1))]

DashRest ==
    /\ ScoringIdle
    /\ UNCHANGED <<pc, pageVars, kpVars, enrichVars>>

\* switchPersona: the persona is set and the list rendered again
SwitchPersona ==
    /\ pc = "dash_ready"
    /\ \E persona \in {"engineer", "business"} :
          controller' = [controller EXCEPT
              !.currentPersona = persona,
              !.filteredArticles =
                  DashboardController_renderArticles(controller.filteredArticles, persona)]
    /\ UNCHANGED <<controls, dashStats>>
    /\ DashRest

\* applyFilters on the values the controls then hold
DashApplyFilters ==
    /\ controller' = [controller EXCEPT !.filteredArticles =
          DashboardController_renderArticles(
              DashboardController_applyFilters(controller.articles,
                                               controller.currentPersona, controls'),
              controller.currentPersona)]
    /\ dashStats' = DashboardController_updateSummaryStats(controller'.filteredArticles,
                                                           controller.currentPersona)
    /\ DashRest

\* change of the #source-tier-filter select
DashChangeTier ==
    /\ pc = "dash_ready"
    /\ \E v \in DashTierValues : controls' = [controls EXCEPT !.sourceTier = v]
    /\ DashApplyFilters

\* change of the #difficulty-filter select
DashChangeDifficulty ==
    /\ pc = "dash_ready"
    /\ \E v \in DashDifficultyValues : controls' = [controls EXCEPT !.difficulty = v]
    /\ DashApplyFilters

\* input on the #min-score-filter slider
DashInputMinScore ==
    /\ pc = "dash_ready"
    /\ \E v \in DashScoreValues : controls' = [controls EXCEPT !.minScore = v]
    /\ DashApplyFilters

\* input in the search box: searchArticles(e.target.value)
DashSearch ==
    /\ pc = "dash_ready"
    /\ \E q \in DashQueries :
          /\ controls' = [controls EXCEPT !.query = q]
          /\ IF q = ""
             THEN DashApplyFilters
             ELSE /\ controller' = [controller EXCEPT !.filteredArticles =
                        DashboardController_renderArticles(
                            DashboardController_searchArticles(controller.filteredArticles, q),
                            controller.currentPersona)]
                  /\ dashStats' = DashboardController_updateSummaryStats(
                                      controller'.filteredArticles, controller.currentPersona)
                  /\ DashRest

\* no dashboard is open
DashIdle ==
    /\ controller = [currentPersona |-> "engineer", articles |-> <<>>,
                      filteredArticles |-> <<>>]
    /\ controls = [sourceTier |-> "all", minScore |-> "0", difficulty |-> "all",
                    query |-> ""]
    /\ dashStats = <<>>

----------------------------------------------------------------------------
(* Enrichment: the domain of an item, enrich.ts *)

\* hosts of up to MaxLabels labels
MaxLabels == 3

HostLabels == {"www", "example", "tesco", "co", "jp", "uk", "com"}

Hosts == UNION {[1..n -> HostLabels] : n \in 1..MaxLabels}

\* the raw items: any host or a URL that does not parse, and a source name
\* that is or is not a host
RawItems ==
    {[url |-> u, source |-> src] :
        u \in {Url(h) : h \in Hosts} \cup {BadUrl},
        src \in {<<"Example News">>, ExampleCom}}

\* const sourceDomain = extractDomain(item.url)
\*                      || extractDomain('https://' + (item.source || ''))
EnrichDomain ==
    /\ pc = "enrich_start"
    /\ sourceDomain' = OrElse(extractDomain(rawItem.url),
                              extractDomain(SourceUrl(rawItem.source)))
    /\ pc' = "enrich_done"
    /\ UNCHANGED <<enrichedFile, configFile, sourceScores, scored, written, results>>
    /\ UNCHANGED <<pageVars, kpVars, rawItem, dashVars>>

\* no item is being enriched, and no dashboard is open
EnrichIdle ==
    /\ rawItem = [url |-> BadUrl, source |-> EmptyString]
    /\ sourceDomain = EmptyString
    /\ DashIdle

----------------------------------------------------------------------------
(* Specifications *)

\* no page is open
PageIdle ==
    /\ articles = <<>>
    /\ currentPersona = "engineer"
    /\ filteredArticles = <<>>
    /\ tierFilter = "all"
    /\ minScoreFilter = "0"
    /\ searchInput = ""
    /\ container = <<>>
    /\ navCounts = <<>>
    /\ stats = <<>>

\* no key-point extraction is under way, and no enrichment
KpIdle ==
    /\ kpText = <<>>
    /\ kpCount = 0
    /\ kpResults = <<>>
    /\ EnrichIdle

InitRest ==
    /\ sourceScores = <<>>
    /\ scored = <<>>
    /\ written = NoFile
    /\ results = NoResults
    /\ pc = "start"
    /\ PageIdle
    /\ KpIdle

\* runs on feeds of several items
Init ==
    /\ enrichedFile \in {File(f) : f \in Feeds} \cup {NoFile}
    /\ configFile \in {File(t) : t \in Tables} \cup {NoFile, CorruptFile}
    /\ InitRest

\* runs on short lists that may hold null entries
InitBroken ==
    /\ enrichedFile \in {File(f) : f \in BrokenFeeds}
    /\ configFile \in {File(t) : t \in Tables} \cup {NoFile}
    /\ InitRest

\* runs on a single item drawn from the full range of texts, dates and hosts
InitItem ==
    /\ enrichedFile \in {File(<<WithId(it, 1)>>) : it \in AllItems}
    /\ configFile \in {File(t) : t \in ItemTables} \cup {NoFile}
    /\ InitRest

\* runs on every feed of two items
InitPair ==
    /\ enrichedFile \in {File(f) : f \in PairFeeds}
    /\ configFile \in {File(t) : t \in Tables} \cup {NoFile}
    /\ InitRest

Next ==
    \/ MainScore
    \/ MainEnsure
    \/ MainPad
    \/ MainSortWrite
    \/ TestAcceptance

Spec == Init /\ [][Next]_vars

SpecItem == InitItem /\ [][Next]_vars

SpecPair == InitPair /\ [][Next]_vars

NextBroken ==
    \/ MainScore
    \/ MainFail
    \/ MainEnsure
    \/ MainPad
    \/ MainSortWrite
    \/ TestAcceptance

SpecBroken == InitBroken /\ [][NextBroken]_vars

\* one key-point extraction on any text, count and persona
InitKeyPoints ==
    /\ enrichedFile = NoFile
    /\ configFile = NoFile
    /\ sourceScores = <<>>
    /\ scored = <<>>
    /\ written = NoFile
    /\ results = NoResults
    /\ pc = "kp_start"
    /\ articles = <<>>
    /\ currentPersona \in {"engineer", "business"}
    /\ filteredArticles = <<>>
    /\ tierFilter = "all"
    /\ minScoreFilter = "0"
    /\ searchInput = ""
    /\ container = <<>>
    /\ navCounts = <<>>
    /\ stats = <<>>
    /\ kpText \in Texts
    /\ kpCount \in 0..MaxCount
    /\ kpResults = <<>>
    /\ EnrichIdle

\* a page that loads any article list, with the controls at their defaults
InitPage ==
    /\ enrichedFile = NoFile
    /\ configFile = NoFile
    /\ sourceScores = <<>>
    /\ scored = <<>>
    /\ written = NoFile
    /\ results = NoResults
    /\ pc = "page_loading"
    /\ articles \in PageFeeds
    /\ currentPersona = "engineer"
    /\ filteredArticles = <<>>
    /\ tierFilter = "all"
    /\ minScoreFilter = "0"
    /\ searchInput = ""
    /\ container = <<>>
    /\ navCounts = <<>>
    /\ stats = <<>>
    /\ KpIdle

NextPage ==
    \/ PageLoad
    \/ ClickPersona
    \/ ChangeTier
    \/ InputMinScore
    \/ InputSearch

SpecPage == InitPage /\ [][NextPage]_vars

\* the enrichment of one raw item
InitDomain ==
    /\ enrichedFile = NoFile
    /\ configFile = NoFile
    /\ sourceScores = <<>>
    /\ scored = <<>>
    /\ written = NoFile
    /\ results = NoResults
    /\ pc = "enrich_start"
    /\ PageIdle
    /\ kpText = <<>>
    /\ kpCount = 0
    /\ kpResults = <<>>
    /\ rawItem \in RawItems
    /\ sourceDomain = EmptyString
    /\ DashIdle

NextDomain == EnrichDomain

SpecDomain == InitDomain /\ [][NextDomain]_vars

\* the dashboard after new DashboardController(): the embedded articles are
\* loaded, rendered and counted, and the controls hold their defaults
InitDashboard ==
    /\ enrichedFile = NoFile
    /\ configFile = NoFile
    /\ sourceScores = <<>>
    /\ scored = <<>>
    /\ written = NoFile
    /\ results = NoResults
    /\ pc = "dash_ready"
    /\ PageIdle
    /\ kpText = <<>>
    /\ kpCount = 0
    /\ kpResults = <<>>
    /\ rawItem = [url |-> BadUrl, source |-> EmptyString]
    /\ sourceDomain = EmptyString
    /\ \E data \in DashFeeds :
          /\ controller = [currentPersona |-> "engineer", articles |-> data,
                            filteredArticles |->
                                DashboardController_renderArticles(data, "engineer")]
          /\ dashStats = DashboardController_updateSummaryStats(
                             DashboardController_renderArticles(data, "engineer"), "engineer")
    /\ controls = [sourceTier |-> "all", minScore |-> "0", difficulty |-> "all",
                    query |-> ""]

NextDashboard ==
    \/ SwitchPersona
    \/ DashChangeTier
    \/ DashChangeDifficulty
    \/ DashInputMinScore
    \/ DashSearch

SpecDashboard == InitDashboard /\ [][NextDashboard]_vars

NextKeyPoints == DeriveKeyPoints

SpecKeyPoints == InitKeyPoints /\ [][NextKeyPoints]_vars


----------------------------------------------------------------------------
(* Properties *)

Done == pc \in {"written", "tested"}

input == readEnriched(enrichedFile)

IsPlaceholder(x) == \E t \in 1..Len(x.tags) : x.tags[t] = "placeholder"

Personas == {"engineer", "business"}

Axes(b) == {b.quality, b.relevance, b.temporal, b.trust, b.actionability}

\* every weight of the trust table lies in [0,1]
InRange(ss) == \A k \in DOMAIN ss : ss[k] >= 0 /\ ss[k] <= 100

HasLabel(items, l) == \E i \in 1..Len(items) : items[i].label = l

\* C1: for every non-empty set of scored items, after labelFromScore on each
\* item followed by ensureAtLeast, at least one item is 'must_read' and at
\* least one different item is 'recommended'
C1_BothLabelsAfterEnsure ==
    (pc = "ensured" /\ Len(scored) > 0) =>
        \E i, j \in 1..Len(scored) :
            /\ i # j
            /\ scored[i].label = "must_read"
            /\ scored[j].label = "recommended"

\* C2: the item list main writes always holds at least one 'must_read' item
\* and at least one 'recommended' item, for every input, the empty one included
C2_OutputHasBothLabels ==
    Done => /\ HasLabel(written.content, "must_read")
            /\ HasLabel(written.content, "recommended")


Placeholders(items) == {k \in 1..Len(items) : IsPlaceholder(items[k])}

\* C3: for an input of n items the run outputs exactly max(n, 20) items; when
\* n < 20 exactly 20 - n placeholders are appended, each tagged 'placeholder'
\* with a 'dummy_' id distinct from every other placeholder's; when n >= 20 no
\* placeholder is added; and no real item is removed
C3_OutputCount ==
    Done =>
        LET out == written.content
            n == Len(input)
            ph == Placeholders(out)
        IN  /\ Len(out) = Max(n, MinItems)
            /\ Cardinality(ph) = Max(0, MinItems - n)
            /\ \A k \in 1..Len(out) : (k \in ph) <=> (out[k].id.prefix = "dummy_")
            /\ \A k, m \in ph : k # m => out[k].id # out[m].id
            /\ \A i \in 1..n : \E k \in 1..Len(out) :
                    /\ k \notin ph
                    /\ out[k].id = input[i].id
                    /\ out[k].title = input[i].title
            /\ Cardinality({out[k].id : k \in 1..Len(out)}) = Len(out)

\* a run on fewer than 20 real items that was padded, and whose padding is
\* more than one placeholder
C3_Witness ==
    /\ Done
    /\ Len(input) > 0
    /\ Len(input) < MinItems
    /\ Cardinality(Placeholders(written.content)) = MinItems - Len(input)
    /\ Cardinality(Placeholders(written.content)) > 1

\* C4: for every item of the written output, real or placeholder, and each
\* persona, total_score is the arithmetic mean of the five breakdown axes
C4_TotalIsMean ==
    Done =>
        \A k \in 1..Len(written.content) : \A p \in Personas :
            LET e == written.content[k].evaluation[p]
            IN  5 * e.total_score =
                    e.breakdown.quality + e.breakdown.relevance + e.breakdown.temporal
                    + e.breakdown.trust + e.breakdown.actionability

\* C5: for every item, every persona and every trust table whose weights lie
\* in [0,1], each of the five axes computed by computeEngineerBreakdown and
\* computeBusinessBreakdown lies in [0,1], and so does total_score
C5_AxesInUnitRange ==
    (pc # "start" /\ InRange(sourceScores)) =>
        \A k \in 1..Len(scored) : \A p \in Personas :
            LET e == scored[k].evaluation[p]
            IN  /\ \A x \in Axes(e.breakdown) : x >= 0 /\ x <= Unit
                /\ e.total_score >= 0
                /\ e.total_score <= Unit

\* a scored item whose engineer relevance reached the cap 1 (13 or more
\* keyword hits at 0.08 each) and whose total exceeds 0.9
C5_Witness ==
    /\ pc = "scored"
    /\ InRange(sourceScores)
    /\ \E k \in 1..Len(scored) :
          /\ scored[k].evaluation.engineer.breakdown.relevance = Unit
          /\ Cardinality({w \in techKw : Includes(TextOf(scored[k]), w)}) >= 13
          /\ scored[k].evaluation.engineer.total_score > Hundredths(90)

\* C6 as stated: for every item of the output, real or placeholder,
\* source_tier is 1 if and only if the trust axis of its persona breakdown
\* is >= 0.8, and is 2 otherwise
C6_TierIffTrustAxis ==
    Done =>
        \A k \in 1..Len(written.content) : \A p \in Personas :
            LET x == written.content[k]
            IN  /\ x.source_tier \in {1, 2}
                /\ (x.source_tier = 1) <=>
                       (x.evaluation[p].breakdown.trust >= Hundredths(TierThreshold))

\* C6 amended: for every item of the output, source_tier is 1 if and only if
\* the weight the trust table resolves for the item's source domain (its
\* entry, else 'default', else 0.5) is >= 0.8, and is 2 otherwise; for a real
\* item this is the case exactly when its trust axis is >= 0.8 under both
\* personas, while a placeholder's trust axis is 0.5 whatever its tier
C6_TierIffResolvedWeight ==
    Done =>
        \A k \in 1..Len(written.content) :
            LET x == written.content[k]
                weight == IF scored[k].sourceDomain \in DOMAIN sourceScores
                          THEN sourceScores[scored[k].sourceDomain]
                          ELSE IF DefaultKey \in DOMAIN sourceScores
                               THEN sourceScores[DefaultKey] ELSE 50
            IN  /\ x.id = scored[k].id
                /\ x.source_tier \in {1, 2}
                /\ (x.source_tier = 1) <=> (weight >= 80)
                /\ \A p \in Personas :
                      IF IsPlaceholder(x)
                      THEN x.evaluation[p].breakdown.trust = Hundredths(50)
                      ELSE (x.source_tier = 1) <=>
                               (x.evaluation[p].breakdown.trust >= Hundredths(80))

\* an output with a real tier-1 item, a real tier-2 item, and a placeholder
\* that is tier 1 although its trust axis is 0.5
C6_Witness ==
    /\ Done
    /\ \E k, m, q \in 1..Len(written.content) :
          /\ ~IsPlaceholder(written.content[k])
          /\ written.content[k].source_tier = 1
          /\ written.content[k].evaluation.engineer.breakdown.trust >= Hundredths(80)
          /\ ~IsPlaceholder(written.content[m])
          /\ written.content[m].source_tier = 2
          /\ IsPlaceholder(written.content[q])
          /\ written.content[q].source_tier = 1


\* the freshness weight of an item whose date lies `age` whole days back
\* (ahead, when age is negative)
FreshnessOfAge(age) == temporalOf(daysFromNow(Date("datetime", age)))

Ages == (0 - MaxAge)..MaxAge

\* C7: the freshness weight, as a function of the age in whole days, is
\* monotonically non-increasing, is 1 at age 0, is 0 for every age >= 30 and
\* is never negative or above 1; a future-dated timestamp counts as age 0 and
\* gets weight 1.  Every scored item carries that weight under both personas
C7_FreshnessMonotone ==
    /\ \A a \in Ages :
          LET f == FreshnessOfAge(a) IN
          /\ f >= FreshnessOfAge(a + 1)
          /\ f >= 0
          /\ f <= Unit
          /\ a <= 0 => f = Unit
          /\ a >= 30 => f = 0
          /\ (a > 0 /\ a < 30) => 30 * f = (30 - a) * Unit
    /\ pc # "start" =>
          \A k \in 1..Len(scored) : \A p \in Personas :
              LET x == scored[k]
                  t == x.evaluation[p].breakdown.temporal
                  a == x.publishedAt.age
              IN  (~IsPlaceholder(x) /\ x.publishedAt.kind \in {"datetime", "dateonly"}) =>
                      /\ a <= 0 => t = Unit
                      /\ a >= 30 => t = 0
                      /\ (a > 0 /\ a < 30) => 30 * t = (30 - a) * Unit

\* a scored item dated in the future, with freshness 1
C7_Witness ==
    /\ pc = "scored"
    /\ \E k \in 1..Len(scored) :
          /\ scored[k].publishedAt.kind = "datetime"
          /\ scored[k].publishedAt.age < 0
          /\ scored[k].evaluation.engineer.breakdown.temporal = Unit
          /\ scored[k].evaluation.business.breakdown.temporal = Unit

\* C8: a publication timestamp that is missing or cannot be parsed is treated
\* as maximally stale: daysFromNow returns 999, so the temporal axis is 0 and
\* the recency component is 0, in the scorer and in the acceptance check alike
C8_UnparseableIsStale ==
    pc = "tested" =>
        \A k \in 1..Len(scored) :
            LET x == scored[k] IN
            (x.publishedAt.kind \notin {"datetime", "dateonly"}) =>
                /\ daysFromNow(x.publishedAt) = 999
                /\ recencyOf(x) = 0
                /\ x.evaluation.engineer.breakdown.temporal = 0
                /\ x.evaluation.business.breakdown.temporal = 0
                /\ acceptDaysFromNow(written.content[k].publishedAt) = 999

LabelRank(l) ==
    CASE l = "skip" -> 0 [] l = "consider" -> 1 [] l = "recommended" -> 2
      [] l = "must_read" -> 3

Scores == 0..(RecencyMax + CredibilityMax + RelevanceCap + ImpactCap)

\* C9: labelFromScore is total: 'must_read' for score >= 80, 'recommended' for
\* 60 <= score < 80, 'consider' for 40 <= score < 60, 'skip' for score < 40;
\* every score has exactly one of the four labels, and the label is monotone
\* non-decreasing in the score.  Every item is classified so before the
\* coverage guarantee runs
C9_LabelThresholds ==
    /\ \A sc \in Scores :
          /\ sc >= 80 => labelFromScore(sc) = "must_read"
          /\ (sc >= 60 /\ sc < 80) => labelFromScore(sc) = "recommended"
          /\ (sc >= 40 /\ sc < 60) => labelFromScore(sc) = "consider"
          /\ sc < 40 => labelFromScore(sc) = "skip"
    /\ \A sc \in Scores :
          LabelRank(labelFromScore(sc)) <= LabelRank(labelFromScore(sc + 1))
    /\ pc = "scored" =>
          \A k \in 1..Len(scored) :
              LET sc == scored[k].score
                  l == scored[k].label
              IN  /\ l \in {"must_read", "recommended", "consider", "skip"}
                  /\ (l = "must_read") <=> (sc >= 80)
                  /\ (l = "recommended") <=> (sc >= 60 /\ sc < 80)
                  /\ (l = "consider") <=> (sc >= 40 /\ sc < 60)
                  /\ (l = "skip") <=> (sc < 40)

\* a classified item whose score sits exactly on a threshold
C9_Witness ==
    /\ pc = "scored"
    /\ \E k \in 1..Len(scored) :
          /\ scored[k].score \in {40, 60, 80}
          /\ scored[k].label = labelFromScore(scored[k].score)

\* C10: for every item and every trust table whose weights lie in [0,1],
\* scoreItem is an integer in [0,100] that is the sum of a recency component
\* in [0,40], a credibility component in [0,25], a keyword-relevance component
\* in [0,20] and an impact component in [0,15]; the placeholder score 45 lies
\* in that range too
C10_ScoreRange ==
    (pc # "start" /\ InRange(sourceScores)) =>
        \A k \in 1..Len(scored) :
            LET x == scored[k] IN
            IF IsPlaceholder(x)
            THEN x.score = 45 /\ x.score \in 0..100
            ELSE /\ x.score \in 0..100
                 /\ recencyOf(x) \in 0..40
                 /\ credibilityOf(x, sourceScores) \in 0..25
                 /\ relevanceOf(x) \in 0..20
                 /\ impactOf(x) \in 0..15
                 /\ x.score = recencyOf(x) + credibilityOf(x, sourceScores)
                              + relevanceOf(x) + impactOf(x)

\* a scored item on which all four components are at their maximum and whose
\* keyword hits exceed the relevance cap
C10_Witness ==
    /\ pc = "scored"
    /\ InRange(sourceScores)
    /\ \E k \in 1..Len(scored) :
          /\ scored[k].score = 100
          /\ 3 * Cardinality({w \in kw : Includes(TextOf(scored[k]), w)}) > 20


NaturalLabel(x) == labelFromScore(x.score)

\* the index of S with the highest score, the earliest among equal scores
TopIdx(items, S) ==
    CHOOSE i \in S : \A j \in S :
        \/ items[j].score < items[i].score
        \/ items[j].score = items[i].score /\ i <= j

CountLabel(items, l) == Cardinality({k \in 1..Len(items) : items[k].label = l})

ExampleTable == DefaultKey :> 50 @@ OpenAiCom :> 95

IsExampleItem(x) ==
    /\ x.title = "OpenAI releases new benchmark-topping model"
    /\ x.sourceDomain = OpenAiCom
    /\ IsDate(x.publishedAt)
    /\ x.publishedAt.age = 0

\* C12: the item titled 'OpenAI releases new benchmark-topping model' from
\* openai.com dated today, scored with the table {openai.com: 0.95,
\* default: 0.5}, has trust axis 0.95, tier 1, temporal axis 1.0, recency 40,
\* credibility 24 and a composite score >= 80, and after the coverage
\* guarantee its label is 'must_read' with no labelReason
C12_OpenAiExample ==
    (pc \in {"ensured", "padded", "written", "tested"} /\ sourceScores = ExampleTable) =>
        \A k \in 1..Len(scored) :
            LET x == scored[k] IN
            IsExampleItem(x) =>
                /\ \A p \in Personas :
                      /\ x.evaluation[p].breakdown.trust = Hundredths(95)
                      /\ x.evaluation[p].breakdown.temporal = Unit
                /\ x.source_tier = 1
                /\ recencyOf(x) = 40
                /\ credibilityOf(x, sourceScores) = 24
                /\ x.score >= 80
                /\ x.score = 40 + 24 + relevanceOf(x) + impactOf(x)
                /\ x.label = "must_read"
                /\ x.labelReason = Undefined

\* the example item written next to an item that the coverage guarantee had
\* to promote
C12_Witness ==
    /\ pc = "written"
    /\ sourceScores = ExampleTable
    /\ \E k, m \in 1..Len(scored) :
          /\ IsExampleItem(scored[k])
          /\ scored[k].label = "must_read"
          /\ written.content[k].labelReason = Undefined
          /\ scored[m].labelReason = PromotedRec


\* C13: in the written output an item carries a labelReason if and only if
\* its label differs from labelFromScore of its own score; an item with its
\* natural label, every placeholder included (score 45, 'consider'), carries
\* none
C13_ReasonIffPromoted ==
    Done =>
        \A k \in 1..Len(written.content) :
            LET x == written.content[k] IN
            /\ (x.labelReason # Undefined) <=> (x.label # labelFromScore(x.score))
            /\ x.labelReason # Undefined =>
                  x.labelReason = (IF x.label = "must_read" THEN PromotedMust
                                   ELSE PromotedRec)
            /\ IsPlaceholder(x) =>
                  /\ x.score = 45
                  /\ x.label = "consider"
                  /\ x.labelReason = Undefined

\* an output holding both promoted items, an item with its natural label and
\* a placeholder
C13_Witness ==
    /\ Done
    /\ \E a, b, c, d \in 1..Len(written.content) :
          /\ written.content[a].labelReason = PromotedMust
          /\ written.content[b].labelReason = PromotedRec
          /\ ~IsPlaceholder(written.content[c])
          /\ written.content[c].labelReason = Undefined
          /\ IsPlaceholder(written.content[d])


\* C14: ensureAtLeast never demotes: in the order skip < consider <
\* recommended < must_read, every item's label after ensureAtLeast is at least
\* its label before
C14_NeverDemotes ==
    /\ pc = "scored" =>
          LET after == ensureAtLeast(scored) IN
          /\ Len(after) = Len(scored)
          /\ \A k \in 1..Len(scored) :
                LabelRank(after[k].label) >= LabelRank(scored[k].label)
    /\ pc = "ensured" =>
          \A k \in 1..Len(scored) :
              LabelRank(scored[k].label) >= LabelRank(NaturalLabel(scored[k]))

\* a set on which ensureAtLeast raised a 'skip' item to 'recommended' and
\* left a natural 'must_read' item alone
C14_Witness ==
    /\ pc = "ensured"
    /\ \E k, m \in 1..Len(scored) :
          /\ NaturalLabel(scored[k]) = "skip"
          /\ scored[k].label = "recommended"
          /\ NaturalLabel(scored[m]) = "must_read"
          /\ scored[m].label = "must_read"

\* C15: the coverage guarantee is idempotent: running ensureAtLeast again on
\* the result of a first run changes no label and no labelReason
C15_Idempotent ==
    pc = "ensured" =>
        LET again == ensureAtLeast(scored) IN
        \A k \in 1..Len(scored) :
            /\ again[k].label = scored[k].label
            /\ again[k].labelReason = scored[k].labelReason


Labeled(res) == {k \in 1..Len(res) : res[k].label # ""}

\* the position of a category in the persona's priority order
OrderPos(persona, key) ==
    CHOOSE k \in 1..Len(personaOrder(persona)) : personaOrder(persona)[k] = key

\* C16: no two entries returned by deriveLabeledKeyPoints come from the same
\* source sentence; the generic backfill draws only from sentences that no
\* category pick used
C16_DistinctSentences ==
    pc = "kp_done" =>
        \A a, b \in 1..Len(kpResults) :
            a # b => kpResults[a].src # kpResults[b].src

\* C17: deriveLabeledKeyPoints returns at most N entries; each category label
\* occurs at most once; the labelled entries follow the active persona's
\* category priority order; unlabelled entries appear only when fewer than N
\* categories matched, and always after every labelled entry
C17_CountAndOrder ==
    pc = "kp_done" =>
        LET res == kpResults
            lab == Labeled(res)
            matched == {key \in {personaOrder(currentPersona)[k] : k \in 1..6} :
                           \E i \in 1..Len(kpText) :
                               /\ kpText[i].len > MinLabeledLen
                               /\ key \in kpText[i].cats}
        IN  /\ Len(res) <= kpCount
            /\ \A a, b \in lab : a # b => res[a].label # res[b].label
            /\ \A a, b \in lab :
                  a < b => OrderPos(currentPersona, res[a].label)
                             < OrderPos(currentPersona, res[b].label)
            /\ \A g \in (1..Len(res)) \ lab :
                  /\ Cardinality(lab) < kpCount
                  /\ \A a \in lab : a < g
            /\ \A a \in lab : res[a].label \in matched

\* a call with N = 3 that returned two labelled entries in the business
\* order (impact before how-to) followed by a generic one
C17_Witness ==
    /\ pc = "kp_done"
    /\ kpCount = 3
    /\ currentPersona = "business"
    /\ Len(kpResults) = 3
    /\ kpResults[1].label = "ja_eikyou"
    /\ kpResults[2].label = "ja_dounyuu"
    /\ kpResults[3].label = ""


\* C18: in every state after page load, whatever persona clicks and edits of
\* the tier select, the slider and the search box came before,
\* filteredArticles is exactly the list of the items of window.articles, in
\* their order, that satisfy the current tier filter, whose total_score under
\* the current persona is >= the current minimum score, and that match the
\* current search query
C18_FilterIsPure ==
    pc = "page_ready" =>
        LET tierOk(a) == \/ tierFilter = "all"
                         \/ tierFilter = "1" /\ a.source_tier = 1
                         \/ tierFilter = "2" /\ a.source_tier = 2
            minimum == IF minScoreFilter = "0.6" THEN (60 * Unit) \div 100 ELSE 0
            scoreOk(a) == getPersonaScore(a, currentPersona) >= minimum
            searchOk(a) == \/ searchInput = ""
                           \/ HaystackIncludes(a, LowerQuery(searchInput))
            keep == {i \in 1..Len(articles) :
                        tierOk(articles[i]) /\ scoreOk(articles[i]) /\ searchOk(articles[i])}
        IN  /\ Len(filteredArticles) = Cardinality(keep)
            /\ \A k \in 1..Len(filteredArticles) : filteredArticles[k].id \in keep
            /\ \A k \in 1..Len(filteredArticles) :
                   filteredArticles[k] = articles[filteredArticles[k].id]
            /\ \A k, m \in 1..Len(filteredArticles) :
                   k < m => filteredArticles[k].id < filteredArticles[m].id

\* all three filters are narrowed under the business persona and pass some
\* but not all articles; the list shown is as long as the full list when
\* the filters are widened again
C18_Witness ==
    /\ pc = "page_ready"
    /\ currentPersona = "business"
    /\ tierFilter = "1"
    /\ minScoreFilter = "0.6"
    /\ searchInput = "OpenAI"
    /\ Len(filteredArticles) > 0
    /\ Len(filteredArticles) < Len(articles)

\* C19: within every rendered bucket the items are in descending order of
\* the active persona's total_score, and items of equal total_score keep the
\* relative order they have in the input item set
C19_BucketOrder ==
    pc = "page_ready" =>
        \A s \in 1..Len(container) :
            LET items == container[s].items IN
            \A k \in 1..(Len(items) - 1) :
                LET a == items[k].article
                    b == items[k + 1].article
                IN  \/ getPersonaScore(a, currentPersona) > getPersonaScore(b, currentPersona)
                    \/ /\ getPersonaScore(a, currentPersona) = getPersonaScore(b, currentPersona)
                       /\ a.id < b.id

\* a bucket in which sorting moved a later article ahead of an earlier one
\* and which also holds two articles of equal score
C19_Witness ==
    /\ pc = "page_ready"
    /\ \E s \in 1..Len(container) :
          LET items == container[s].items IN
          /\ \E k \in 1..(Len(items) - 1) :
                items[k].article.id > items[k + 1].article.id
          /\ \E k \in 1..(Len(items) - 1) :
                getPersonaScore(items[k].article, currentPersona)
                    = getPersonaScore(items[k + 1].article, currentPersona)

\* the display cap of a bucket
Cap(rec) ==
    IF rec \in {"must_read", "recommended"} THEN 8
    ELSE IF rec = "x" THEN 10
    ELSE 5

\* C20: every item of a bucket is rendered, an item is flagged 'extra'
\* exactly when its position in the sorted bucket is at or beyond the cap of
\* its bucket (8 for must_read and recommended, 10 for the micro-post bucket,
\* 5 for consider and skip), and a show-more button is present exactly for
\* the buckets with items beyond the cap
C20_ExtraBeyondCap ==
    pc = "page_ready" =>
        /\ \A i \in 1..Len(filteredArticles) :
              \E s \in 1..Len(container) : \E k \in 1..Len(container[s].items) :
                  container[s].items[k].article = filteredArticles[i]
        /\ \A s \in 1..Len(container) :
              LET sec == container[s] IN
              /\ \A k \in 1..Len(sec.items) :
                    sec.items[k].extra <=> (k - 1 >= Cap(sec.rec))
              /\ sec.showMore <=> (Len(sec.items) > Cap(sec.rec))


\* an item without its label and labelReason
Unlabelled(x) == [x EXCEPT !.label = "", !.labelReason = ""]

\* C30: ensureAtLeast changes nothing but label and labelReason, on at most
\* two items; no item's score, evaluation or tier changes, nor the order of
\* the list; a set that already holds a 'must_read' and a 'recommended' item
\* is left exactly as it is
C30_OnlyLabelsChange ==
    pc = "scored" =>
        LET after == ensureAtLeast(scored)
            changed == {k \in 1..Len(scored) : after[k] # scored[k]}
        IN  /\ Len(after) = Len(scored)
            /\ \A k \in 1..Len(scored) :
                  /\ Unlabelled(after[k]) = Unlabelled(scored[k])
                  /\ after[k].id = scored[k].id
                  /\ after[k].score = scored[k].score
                  /\ after[k].evaluation = scored[k].evaluation
                  /\ after[k].source_tier = scored[k].source_tier
            /\ Cardinality(changed) <= 2
            /\ (HasLabel(scored, "must_read") /\ HasLabel(scored, "recommended")) =>
                  after = scored

\* after ensureAtLeast on three or more items, exactly two of them carry a
\* promotion marker
C30_Witness ==
    /\ pc = "ensured"
    /\ Len(scored) >= 3
    /\ Cardinality({k \in 1..Len(scored) : scored[k].labelReason # Undefined}) = 2

\* the rendered entries of the article with the given id, as pairs of section
\* and position
Rendered(id) ==
    {<<r, k>> \in (1..Len(container)) \X (1..MaxArticles + 1) :
        k <= Len(container[r].items) /\ container[r].items[k].article.id = id}

\* an item of the micro-post channel: tagged 'x_post' or from a source whose
\* name starts with 'X(@'
IsMicroPost(a) ==
    \/ "x_post" \in {a.tags[t] : t \in 1..Len(a.tags)}
    \/ a.source = "X(@sama)"

\* C21: every item of the filtered set is rendered in exactly one of the five
\* buckets: the micro-post bucket if and only if it is a micro-post, otherwise
\* the bucket its classifier label names; a labelled item has the same bucket
\* under both personas; the navigation's bucket counts are the bucket sizes
\* and add up to the size of the filtered set
C21_OneBucketEach ==
    pc = "page_ready" =>
        /\ \A i \in 1..Len(filteredArticles) :
              LET a == filteredArticles[i]
              IN  /\ Cardinality(Rendered(a.id)) = 1
                  /\ \A e \in Rendered(a.id) :
                        /\ container[e[1]].rec \in DOMAIN navCounts
                        /\ (container[e[1]].rec = "x") <=> IsMicroPost(a)
                        /\ (~IsMicroPost(a) /\ a.label # Undefined) =>
                              container[e[1]].rec = a.label
                  /\ a.label # Undefined =>
                        \A rec \in DOMAIN navCounts :
                            (\E k \in 1..Len(Group(filteredArticles, rec, "engineer")) :
                                Group(filteredArticles, rec, "engineer")[k].id = a.id)
                            <=>
                            (\E k \in 1..Len(Group(filteredArticles, rec, "business")) :
                                Group(filteredArticles, rec, "business")[k].id = a.id)
        /\ Cardinality(DOMAIN navCounts) = 5
        /\ \A r \in 1..Len(container) :
              navCounts[container[r].rec] = Len(container[r].items)
        /\ \A rec \in DOMAIN navCounts :
              (\A r \in 1..Len(container) : container[r].rec # rec) => navCounts[rec] = 0
        /\ navCounts["x"] + navCounts["must_read"] + navCounts["recommended"]
             + navCounts["consider"] + navCounts["skip"] = Len(filteredArticles)

\* under the business persona a filtered list of six must_read items and
\* micro-posts labelled 'consider' is rendered after a search edit
C21_Witness ==
    /\ pc = "page_ready"
    /\ currentPersona = "business"
    /\ searchInput = "undefined"
    /\ navCounts["x"] >= 1
    /\ navCounts["must_read"] > limitTop - 3
    /\ \E i \in 1..Len(filteredArticles) :
          IsMicroPost(filteredArticles[i]) /\ filteredArticles[i].label = "consider"

\* C22: after the load and after every persona switch and filter or search
\* edit the summary statistics are those of the current filtered set: its
\* size, its number of items with source_tier 1 and the rounded percentage of
\* the mean of the active persona's total_score, 0 for an empty set
C22_StatsOfFilteredSet ==
    pc = "page_ready" =>
        LET n == Len(filteredArticles)
            total == SumSeq([k \in 1..n |->
                         getPersonaScore(filteredArticles[k], currentPersona)] \o <<>>, 1)
        IN  /\ stats.total = n
            /\ stats.tier1 =
                  Cardinality({k \in 1..n : filteredArticles[k].source_tier = 1})
            /\ n = 0 => stats.avg = 0
            /\ n > 0 =>
                  \* stats.avg is the integer nearest to 100 * total / (n * Unit)
                  /\ 2 * stats.avg * n * Unit <= 200 * total + n * Unit
                  /\ 2 * stats.avg * n * Unit > 200 * total - n * Unit

\* the statistics shown after an edit that narrowed the list under the
\* business persona
C22_Witness ==
    /\ pc = "page_ready"
    /\ currentPersona = "business"
    /\ minScoreFilter = "0.6"
    /\ Len(filteredArticles) > 0
    /\ Len(filteredArticles) < Len(articles)
    /\ stats.tier1 > 0
    /\ stats.avg > 0

\* an edit left the filtered set empty
C22_WitnessEmpty ==
    /\ pc = "page_ready"
    /\ Len(articles) > 0
    /\ Len(filteredArticles) = 0
    /\ stats.avg = 0

\* an article as the scoring run writes it
FromScorer(a) == "summary" \in DOMAIN a

\* the lower-cased query is a substring of the lower-cased title, summary or
\* source of a scorer item
InSomeField(a, query) ==
    \/ query \in PageSubstrings(a.title)
    \/ query \in PageSubstrings(a.summary)
    \/ query \in PageSubstrings(a.source)

\* C23: with a non-empty query, an item produced by the scorer passes the
\* free-text clause exactly when the lower-cased query is a substring of its
\* lower-cased title, of its summary or of its source; text that is in none of
\* these fields never makes it pass
C23_SearchOverFields ==
    (pc = "page_ready" /\ searchInput # "") =>
        \A i \in 1..Len(articles) :
            LET a == articles[i]
            IN  (/\ FromScorer(a)
                 /\ ~(tierFilter # "all" /\ a.source_tier # ParseInt(tierFilter))
                 /\ getPersonaScore(a, currentPersona) >= ParseFloat(minScoreFilter))
                => ((\E k \in 1..Len(filteredArticles) : filteredArticles[k].id = a.id)
                    <=> InSomeField(a, LowerQuery(searchInput)))

OnlyBusiness(it) ==
    /\ TestAny(TextOf(it), BizPattern)
    /\ \A k \in techKw : ~Includes(TextOf(it), k)

\* the item matches an engineer keyword and not the business relevance pattern
OnlyEngineer(it) ==
    /\ ~TestAny(TextOf(it), BizPattern)
    /\ \E k \in techKw : Includes(TextOf(it), k)

\* the item matches neither persona's actionability pattern
NoActionability(it) ==
    /\ ~TestAny(TextOf(it), HowToPattern)
    /\ ~TestAny(TextOf(it), BizActionPattern)

\* A is a business-only item and B an engineer-only item of the same trust
\* and age, and neither matches an actionability pattern
PersonaPair(A, B) ==
    /\ OnlyBusiness(A) /\ OnlyEngineer(B)
    /\ NoActionability(A) /\ NoActionability(B)
    /\ credBaseOf(A.sourceDomain, sourceScores) = credBaseOf(B.sourceDomain, sourceScores)
    /\ A.publishedAt = B.publishedAt

\* C24: of a business-only item A and an engineer-only item B with the same
\* trust weight and age, neither matching an actionability pattern, A has the
\* higher total_score under 'business' and B under 'engineer', so a group
\* that holds both is ordered differently under the two personas
C24_PersonaOrder ==
    pc = "scored" =>
        \A i \in 1..Len(scored), j \in 1..Len(scored) :
            PersonaPair(scored[i], scored[j]) =>
                /\ scored[i].evaluation.business.total_score
                     > scored[j].evaluation.business.total_score
                /\ scored[j].evaluation.engineer.total_score
                     > scored[i].evaluation.engineer.total_score
                /\ SortGroup(<<scored[i], scored[j]>>, "business")[1] = scored[i]
                /\ SortGroup(<<scored[i], scored[j]>>, "engineer")[1] = scored[j]

\* a run scored such a pair, the engineer-only item listed first
C24_Witness ==
    /\ pc = "scored"
    /\ Len(scored) = 2
    /\ PersonaPair(scored[2], scored[1])
    /\ scored[1].label = scored[2].label

\* the last two labels of the host are one of the listed suffixes
UnderListedSuffix(host) == Len(host) >= 2 /\ LastLabels(host, 2) \in multi

\* C25: for every URL that parses, extractDomain returns the last three
\* labels of the host exactly when the host's last two labels form one of the
\* listed suffixes, and the last two labels otherwise, so that 'www.' or any
\* other subdomain is stripped from a host that is not under those suffixes
C25_RegistrableDomain ==
    (pc = "enrich_done" /\ rawItem.url.valid) =>
        sourceDomain = IF UnderListedSuffix(rawItem.url.host)
                       THEN LastLabels(rawItem.url.host, 3)
                       ELSE LastLabels(rawItem.url.host, 2)

\* the weight the fallback chain gives a domain: the exact entry, else the
\* table's default, else 0.5, against { default: 0.5 } when the file is
\* missing or unreadable
ChainWeight(domain, file) ==
    LET table == IF file.exists /\ Parses(file) THEN file.content ELSE DefaultKey :> 50
    IN  IF domain \in DOMAIN table THEN table[domain]
        ELSE IF DefaultKey \in DOMAIN table THEN table[DefaultKey]
        ELSE 50

\* C26: resolving an item's trust weight never fails and follows the chain:
\* a malformed URL gives the empty domain; a domain without an exact entry,
\* the empty one included, gets the table's default; a table without default
\* gives 0.5; a missing or unreadable file counts as { default: 0.5 }; and the
\* credibility points, both trust axes and the tier of an item all come from
\* that one weight
C26_TrustFallbackChain ==
    /\ extractDomain(BadUrl) = EmptyString
    /\ pc = "scored" =>
          /\ Len(scored) = Len(input)
          /\ \A i \in 1..Len(scored) :
                LET w == ChainWeight(input[i].sourceDomain, configFile)
                    x == scored[i]
                IN  /\ x.score - recencyOf(input[i]) - relevanceOf(input[i])
                         - impactOf(input[i]) = Round(w * CredibilityMax, 100)
                    /\ x.evaluation.engineer.breakdown.trust = clamp01(Hundredths(w))
                    /\ x.evaluation.business.breakdown.trust = clamp01(Hundredths(w))
                    /\ x.source_tier = IF w >= TierThreshold THEN 1 ELSE 2

\* a run with an unparseable table file scored an item whose URL did not
\* parse, next to an item of a known host
C26_Witness ==
    /\ pc = "scored"
    /\ configFile = CorruptFile
    /\ \E i \in 1..Len(scored) :
          /\ ~input[i].url.valid
          /\ scored[i].sourceDomain = EmptyString
          /\ scored[i].evaluation.engineer.breakdown.trust = Hundredths(50)
    /\ \E i \in 1..Len(scored) : scored[i].sourceDomain = OpenAiCom

\* a run with a table that has entries and no default scored an item without
\* an entry
C26_WitnessNoDefault ==
    /\ pc = "scored"
    /\ configFile.exists
    /\ Parses(configFile)
    /\ DefaultKey \notin DOMAIN configFile.content
    /\ Len(scored) > 0

\* C27: a defect in one item never blocks the rest: when scoring one entry of
\* the list fails, every other item is still scored, labelled and written, and
\* the run produces its output file
C27_DefectIsolated ==
    (pc \in {"failed", "written", "tested"} /\ Throws(input)) =>
        /\ written.exists
        /\ \A i \in 1..Len(input) :
              ~IsNull(input[i]) =>
                  \E k \in 1..Len(written.content) :
                      written.content[k].id = input[i].id

\* the item satisfies the dashboard's tier, difficulty, minimum-score and
\* search clauses as the controls and the persona now stand
DashCurrent(article) ==
    /\ controls.sourceTier # "all" => article.source_tier = ParseInt(controls.sourceTier)
    /\ controls.difficulty # "all" => article.difficulty_level = controls.difficulty
    /\ DashboardController_getPersonaScore(article, controller.currentPersona)
         >= ParseFloat(controls.minScore)
    /\ controls.query # "" =>
          \/ DashLower(controls.query) \in DashSubstrings(article.title)
          \/ DashLower(controls.query) \in DashSubstrings(article.content)
          \/ DashLower(controls.query) \in DashSubstrings(article.source)
          \/ \E t \in 1..Len(article.tags) :
                DashLower(controls.query) \in DashSubstrings(article.tags[t])

DashIds(list) == {list[k].id : k \in 1..Len(list)}

\* C29: after any sequence of switchPersona, applyFilters and searchArticles
\* events the controller's filteredArticles holds exactly the items of its
\* articles that satisfy the current tier and difficulty filters, score at
\* least the current minimum under the current persona and match the current
\* search query, and the statistics are those of that set
C29_FilteredIsCurrent ==
    pc = "dash_ready" =>
        /\ DashIds(controller.filteredArticles) =
              DashIds(SelectSeq(controller.articles, DashCurrent))
        /\ dashStats = DashboardController_updateSummaryStats(
                           controller.filteredArticles, controller.currentPersona)

====
